---- MODULE Spec2Model ----
(***************************************************************************)
(* Model of the iFrame_Concept style-editor controls: the FontSize control *)
(* (value / min / max / units / locked setters, reset, setDefaults), the   *)
(* Color and FontFamily default-configuration pairs, the generateControl   *)
(* dispatcher, the two asset loads with their readiness promises, and the  *)
(* compound-id utilities.                                                  *)
(*                                                                         *)
(* Numbers.  A JavaScript number x is held as the integer x * Scale, with  *)
(* Scale = 1600, so that every value with at most two decimals is an       *)
(* integer and the division by defaultUnitSize (16) in ptToEm is exact.    *)
(* Math.round rounds half up, as the code's roundTo does; for the inputs   *)
(* used here (two decimals, below 1200) the double-precision result of     *)
(* roundTo equals the exact one.  NaN propagates through the arithmetic as *)
(* in JavaScript; Infinity is above every finite number and is kept by the *)
(* rounding and by the unit conversions.                                   *)
(***************************************************************************)
EXTENDS Integers, Sequences, FiniteSets, TLC

VARIABLES
    ctl,      \* which control the instance is: "FontSize", "Color", "FontFamily", "none"
    fs,       \* the FontSize control's closure state
    col,      \* the Color control's closure state
    font,     \* the FontFamily control's closure state
    last,     \* the last call made on the instance and how it ended
    padlockTemplate,  \* the padlock module's cached SVG: "undefined" until loaded
    Choices,          \* the choices module's cached constructor: "undefined" until loaded
    gen,      \* the last generateControl call and how it ended
    made,     \* the last direct call of a factory and how it ended
    loads,    \* the two asset loads and the three readiness promises
    util,     \* the last application of a utility function: its inputs and result
    rt,       \* the RadioTabs control's closure state and its radios
    fz        \* the em/px FontSize control's inputs and unit

vars == <<ctl, fs, col, font, last, padlockTemplate, Choices, gen, made, loads, util, rt, fz>>

----------------------------------------------------------------------------
(* Numbers                                                                 *)

defaultUnitSize == 16

\* The base unit token taken to be the label's initial text.
defaultUnitType_pt == "pt"

defaultUnitType == "px"

Scale == defaultUnitSize * 100

\* The number h/100.
Dec(h) == h * defaultUnitSize

\* The number n.
Whole(n) == n * Scale

\* NaN, undefined and Infinity, as numbers no finite input and no finite result
\* of the arithmetic equals.
NaN == 99999999
Undef == 99999998
Infinity == 99999997

\* Number.isFinite for the values of the model.
IsFinite(x) == x # NaN /\ x # Undef /\ x # Infinity

\* Number(x) for the values of the model: undefined converts to NaN.
ToNumber(x) == IF x = Undef THEN NaN ELSE x

MathMax(a, b) == IF a = NaN \/ b = NaN THEN NaN ELSE IF a >= b THEN a ELSE b

MathMin(a, b) == IF a = NaN \/ b = NaN THEN NaN ELSE IF a <= b THEN a ELSE b

\* Math.round(value * 10^precision) / 10^precision; Math.round rounds half up.
roundTo(value, precision) ==
    IF ToNumber(value) = NaN THEN NaN
    ELSE IF value = Infinity THEN Infinity
    ELSE LET q == Scale \div (10 ^ precision)
         IN  q * ((2 * value + q) \div (2 * q))

ptToEm(ptSize) ==
    IF ptSize = NaN THEN NaN
    ELSE IF ptSize = Infinity THEN Infinity
    ELSE ptSize \div defaultUnitSize

emToPt(emSize) ==
    IF emSize = NaN THEN NaN
    ELSE IF emSize = Infinity THEN Infinity
    ELSE emSize * defaultUnitSize

minimumMin == roundTo(0 * Whole(defaultUnitSize), 0)
maximumMax == roundTo(7 * Whole(defaultUnitSize), 0)

----------------------------------------------------------------------------
(* FontSize control                                                        *)

\* The closure state before the constructor's own setDefaults call.
fsRaw ==
    [units |-> "pt", min |-> 0, max |-> 0, value |-> 0,
     defaultUnits |-> defaultUnitType,
     defaultMin |-> 0, defaultMax |-> 0, defaultValue |-> 0,
     dataLocked |-> "false", inputDisabled |-> FALSE, sliderDisabled |-> FALSE,
     events |-> 0, bubbles |-> 0, err |-> "none"]

\* Whether the display unit is the base unit (every other unit text is shown as em).
isDefaultUnit(st) == st.units = defaultUnitType

\* refreshOptions builds an array of ceil(max) - floor(min) + 1 points (the two
\* swapped when min > max, in em): Array.from throws a RangeError when that
\* length is infinite, and builds no point when it is NaN.
refreshOptions(st) ==
    IF (st.min = Infinity /\ IsFinite(st.max)) \/ (st.max = Infinity /\ IsFinite(st.min))
    THEN "RangeError"
    ELSE "none"

\* Rewrites the two inputs from the state and refreshes the options;
\* dispatches new Event('change'), an event that does not bubble, when asked,
\* unless refreshOptions threw.  events counts the change events dispatched on
\* the control in a call, bubbles those of them that bubble.
updateControls(st, withEvent) ==
    IF refreshOptions(st) # "none" THEN [st EXCEPT !.err = refreshOptions(st)]
    ELSE IF withEvent THEN [st EXCEPT !.events = @ + 1]
    ELSE st

\* Whether the call under way has thrown: no further statement of it runs.
thrown(st) == st.err # "none"

getValue(st) ==
    IF isDefaultUnit(st) THEN roundTo(st.value, 0) ELSE roundTo(ptToEm(st.value), 1)

getMin(st) ==
    IF isDefaultUnit(st) THEN roundTo(st.min, 0) ELSE roundTo(ptToEm(st.min), 1)

getMax(st) ==
    IF isDefaultUnit(st) THEN roundTo(st.max, 0) ELSE roundTo(ptToEm(st.max), 1)

\* The number a unit-dependent setter stores for the input val, in base units.
toInternal(st, val) ==
    IF isDefaultUnit(st) THEN roundTo(val, 0) ELSE emToPt(roundTo(val, 1))

clampValue(normValue, lo, hi) == MathMax(MathMin(normValue, hi), lo)

setValue(st, val) ==
    IF thrown(st) THEN st
    ELSE IF ~IsFinite(val) THEN st
    ELSE updateControls(
            [st EXCEPT !.value = clampValue(toInternal(st, val), st.min, st.max)],
            TRUE)

setMin(st, val) ==
    LET m == MathMax(toInternal(st, val), minimumMin)
    IN  IF thrown(st) THEN st
        ELSE updateControls([st EXCEPT !.min = m, !.value = MathMax(m, st.value)], FALSE)

setMax(st, val) ==
    LET m == MathMin(toInternal(st, val), maximumMax)
    IN  IF thrown(st) THEN st
        ELSE updateControls([st EXCEPT !.max = m, !.value = MathMin(m, st.value)], FALSE)

\* The units setter also storing the value as a whole number of the new unit.
setUnits_WholeUnits(st, newUnit) ==
    IF thrown(st) THEN st
    ELSE IF newUnit = "em" \/ newUnit = defaultUnitType
    THEN updateControls(
            [st EXCEPT !.units = newUnit,
                       !.value = IF newUnit = "em" THEN emToPt(roundTo(ptToEm(st.value), 0))
                                 ELSE roundTo(st.value, 0)],
            TRUE)
    ELSE st

setUnits(st, newUnit) ==
    IF thrown(st) THEN st
    ELSE IF newUnit = "em" \/ newUnit = defaultUnitType
    THEN updateControls([st EXCEPT !.units = newUnit], TRUE)
    ELSE st

\* div.locked: whether the padlock's data-locked attribute is "true".
locked(st) == st.dataLocked = "true"

\* value.toString() for the values assigned to locked: a boolean gives "true"
\* or "false", a string itself; null has no toString.
toString(value) == IF value = "<null>" THEN "TypeError" ELSE value

\* The locked setter disabling the number input only.
setLocked_InputOnly(st, value) ==
    IF thrown(st) THEN st
    ELSE IF value = "<null>" THEN [st EXCEPT !.err = toString(value)]
    ELSE LET a == [st EXCEPT !.dataLocked = toString(value)]
         IN  [a EXCEPT !.inputDisabled = locked(a)]

setLocked(st, value) ==
    IF thrown(st) THEN st
    ELSE IF value = "<null>" THEN [st EXCEPT !.err = toString(value)]
    ELSE LET a == [st EXCEPT !.dataLocked = toString(value)]
         IN  [a EXCEPT !.inputDisabled = locked(a), !.sliderDisabled = locked(a)]

\* A call of div.refreshOptions() as a statement of its own.
refreshed(st) ==
    IF thrown(st) THEN st ELSE [st EXCEPT !.err = refreshOptions(st)]

\* Object.assign(div, {units, min, max, value}) with the stored defaults, in
\* that order, then refreshOptions.
reset(st) ==
    refreshed(
        setValue(
            setMax(
                setMin(setUnits(st, st.defaultUnits), st.defaultMin),
                st.defaultMax),
            st.defaultValue))

\* setDefaultsError comparing min with max before the absolute bounds.
setDefaultsError_OrderingFirst(cfg) ==
    IF cfg.units = "<undefined>" \/ cfg.min = Undef \/ cfg.max = Undef \/ cfg.value = Undef
        THEN "MissingParameter"
    ELSE IF cfg.units # defaultUnitType /\ cfg.units # "em"
        THEN "InvalidUnits"
    ELSE IF ~IsFinite(cfg.min) \/ ~IsFinite(cfg.max) \/ ~IsFinite(cfg.value)
        THEN "NotANumber"
    ELSE LET toPt(num) == IF cfg.units = defaultUnitType THEN num ELSE emToPt(num)
             minPt == toPt(cfg.min)
             maxPt == toPt(cfg.max)
             valuePt == toPt(cfg.value)
         IN  IF minPt > maxPt THEN "InvalidOrdering"
             ELSE IF minPt < minimumMin THEN "OutOfAbsoluteBounds"
             ELSE IF maxPt > maximumMax THEN "OutOfAbsoluteBounds"
             ELSE IF valuePt < minPt \/ valuePt > maxPt THEN "ValueOutOfRange"
             ELSE "none"

\* The first check of setDefaults that fails, "none" when all pass.
setDefaultsError(cfg) ==
    IF cfg.units = "<undefined>" \/ cfg.min = Undef \/ cfg.max = Undef \/ cfg.value = Undef
        THEN "MissingParameter"
    ELSE IF cfg.units # defaultUnitType /\ cfg.units # "em"
        THEN "InvalidUnits"
    ELSE IF ~IsFinite(cfg.min) \/ ~IsFinite(cfg.max) \/ ~IsFinite(cfg.value)
        THEN "NotANumber"
    ELSE LET toPt(num) == IF cfg.units = defaultUnitType THEN num ELSE emToPt(num)
             minPt == toPt(cfg.min)
             maxPt == toPt(cfg.max)
             valuePt == toPt(cfg.value)
         IN  IF minPt < minimumMin THEN "OutOfAbsoluteBounds"
             ELSE IF maxPt > maximumMax THEN "OutOfAbsoluteBounds"
             ELSE IF minPt > maxPt THEN "InvalidOrdering"
             ELSE IF valuePt < minPt \/ valuePt > maxPt THEN "ValueOutOfRange"
             ELSE "none"

\* storeDefaults keeping the numbers as given.
storeDefaults_Unrounded(st, cfg) ==
    [st EXCEPT !.defaultUnits = cfg.units,
               !.defaultMin = cfg.min,
               !.defaultMax = cfg.max,
               !.defaultValue = cfg.value]

\* The defaults as setDefaults stores them: in the given unit, rounded for it.
storeDefaults(st, cfg) ==
    LET p == IF cfg.units = defaultUnitType THEN 0 ELSE 1
    IN  [st EXCEPT !.defaultUnits = cfg.units,
                   !.defaultMin = roundTo(cfg.min, p),
                   !.defaultMax = roundTo(cfg.max, p),
                   !.defaultValue = roundTo(cfg.value, p)]

\* setDefaults storing the units as soon as they are validated.
setDefaults_UnitsStoredEarly(st, cfg, withReset) ==
    LET err == setDefaultsError(cfg)
        early == IF err \in {"MissingParameter", "InvalidUnits"} THEN st
                 ELSE [st EXCEPT !.defaultUnits = cfg.units]
        done == IF withReset THEN reset(storeDefaults(st, cfg)) ELSE storeDefaults(st, cfg)
    IN  IF err # "none" THEN [st |-> early, err |-> err]
        ELSE [st |-> done, err |-> done.err]

\* setDefaults applying the old defaults before it stores the new ones.
setDefaults_ResetBeforeStore(st, cfg, withReset) ==
    LET err == setDefaultsError(cfg)
        done == IF withReset THEN storeDefaults(reset(st), cfg) ELSE storeDefaults(st, cfg)
    IN  IF err # "none" THEN [st |-> st, err |-> err]
        ELSE [st |-> done, err |-> done.err]

\* setDefaults: the state it leaves and the error it throws ("none": it returns).
setDefaults(st, cfg, withReset) ==
    LET err == setDefaultsError(cfg)
        done == IF withReset THEN reset(storeDefaults(st, cfg)) ELSE storeDefaults(st, cfg)
    IN  IF err # "none" THEN [st |-> st, err |-> err]
        ELSE [st |-> done, err |-> done.err]

\* The constructor: the closure state after its setDefaults(..., true).
fsConstructed ==
    setDefaults(fsRaw,
                [units |-> defaultUnitType, min |-> Whole(0),
                 max |-> 7 * Whole(defaultUnitSize), value |-> Whole(defaultUnitSize)],
                TRUE).st

----------------------------------------------------------------------------
(* Color control                                                           *)
(*                                                                         *)
(* A JavaScript value handed to the control is a string of the model; the  *)
(* strings of NonStrings stand for values that are not strings.  What the  *)
(* browser does with a color string (CSS parsing, the sanitization of an   *)
(* <input type=color> value: a valid simple color #rrggbb in lower case,   *)
(* every other value "#000000") is tabulated for the strings used here.    *)

NonStrings == {"<undefined>", "<number>"}

isString(v) == v \notin NonStrings

BlankStrings == {"", "  "}

\* Strings that new Option().style.color accepts.
CssColors == {"#336699", "#AABBCC", "red"}

\* colorSel.value after the assignment colorSel.value = newVal.
colorInputValue(newVal) ==
    CASE newVal = "#336699" -> "#336699"
      [] newVal = "#AABBCC" -> "#aabbcc"
      [] newVal = "#aabbcc" -> "#aabbcc"
      [] OTHER -> "#000000"

colConstructed ==
    [value |-> "#000000", defaultColor |-> "#000000",
     events |-> 0, bubbles |-> 0, err |-> "none"]

colSetValue(st, newVal) ==
    [st EXCEPT !.value = colorInputValue(newVal), !.events = @ + 1, !.bubbles = @ + 1]

colReset(st) == colSetValue(st, st.defaultColor)

colSetDefaultsError(value) ==
    IF ~isString(value) \/ value \in BlankStrings THEN "NotAString"
    ELSE IF value \notin CssColors THEN "InvalidColor"
    ELSE "none"

colSetDefaults(st, value, withReset) ==
    LET err == colSetDefaultsError(value)
    IN  IF err # "none" THEN [st |-> st, err |-> err]
        ELSE [st |-> IF withReset THEN colReset([st EXCEPT !.defaultColor = value])
                     ELSE [st EXCEPT !.defaultColor = value],
              err |-> "none"]

----------------------------------------------------------------------------
(* FontFamily control                                                      *)
(*                                                                         *)
(* A font-family string is the sequence of its characters, so that the     *)
(* pattern of isValidFontFamily is matched character by character.         *)

NotAString == <<"<undefined>">>

font_Domine ==
    <<"'", "D", "o", "m", "i", "n", "e", "'", ",", " ", "s", "e", "r", "i", "f">>

font_Inconsolata ==
    <<"'", "I", "n", "c", "o", "n", "s", "o", "l", "a", "t", "a", "'", ",", " ",
      "m", "o", "n", "o", "s", "p", "a", "c", "e">>

font_Lora ==
    <<"'", "L", "o", "r", "a", "'", ",", " ", "s", "e", "r", "i", "f">>

font_Merriweather ==
    <<"'", "M", "e", "r", "r", "i", "w", "e", "a", "t", "h", "e", "r", "'", ",", " ",
      "s", "e", "r", "i", "f">>

font_Monospace ==
    <<"m", "o", "n", "o", "s", "p", "a", "c", "e">>

font_OpenSans ==
    <<"'", "O", "p", "e", "n", " ", "S", "a", "n", "s", "'", ",", " ",
      "s", "a", "n", "s", "-", "s", "e", "r", "i", "f">>

font_Roboto ==
    <<"'", "R", "o", "b", "o", "t", "o", "'", ",", " ",
      "s", "a", "n", "s", "-", "s", "e", "r", "i", "f">>

font_Sans ==
    <<"s", "a", "n", "s", "-", "s", "e", "r", "i", "f">>

font_Serif ==
    <<"s", "e", "r", "i", "f">>

font_TimesNewRoman ==
    <<"'", "T", "i", "m", "e", "s", " ", "N", "e", "w", " ", "R", "o", "m", "a", "n", "'",
      ",", " ", "s", "e", "r", "i", "f">>

\* The option values of the select, in the order of the sorted font names.
defaultFonts ==
    <<font_Domine, font_Inconsolata, font_Lora, font_Merriweather, font_Monospace,
      font_OpenSans, font_Roboto, font_Sans, font_Serif, font_TimesNewRoman>>

\* \w of the pattern.
WordChars ==
    {"a", "b", "c", "d", "e", "f", "g", "h", "i", "j", "k", "l", "m",
     "n", "o", "p", "q", "r", "s", "t", "u", "v", "w", "x", "y", "z",
     "A", "B", "C", "D", "E", "F", "G", "H", "I", "J", "K", "L", "M",
     "N", "O", "P", "Q", "R", "S", "T", "U", "V", "W", "X", "Y", "Z",
     "0", "1", "2", "3", "4", "5", "6", "7", "8", "9", "_"}

\* \s of the pattern (the white-space characters the inputs use).
SpaceChars == {" ", "\t"}

QuoteChars == {"'", "\""}

\* [\w\s\-]
isNameChar(c) == c \in WordChars \/ c \in SpaceChars \/ c = "-"

allNameChars(s) == \A k \in 1..Len(s) : isNameChar(s[k])

allSpaces(s) == \A k \in 1..Len(s) : s[k] \in SpaceChars

\* The parts of s between its commas.
RECURSIVE splitComma(_, _)
splitComma(s, cur) ==
    IF s = <<>> THEN <<cur>>
    ELSE IF Head(s) = "," THEN <<cur>> \o splitComma(Tail(s), <<>>)
    ELSE splitComma(Tail(s), Append(cur, Head(s)))

\* matchesName accepting any quote as the closing one.
matchesName_AnyClosingQuote(m) ==
    \/ Len(m) >= 1 /\ allNameChars(m)
    \/ /\ Len(m) >= 3
       /\ m[1] \in QuoteChars
       /\ m[Len(m)] \in QuoteChars
       /\ allNameChars(SubSeq(m, 2, Len(m) - 1))

\* (['"]?)[\w\s\-]+?\1 : a non-empty run of name characters, bare or between
\* two equal quotes.
matchesName(m) ==
    \/ Len(m) >= 1 /\ allNameChars(m)
    \/ /\ Len(m) >= 3
       /\ m[1] \in QuoteChars
       /\ m[Len(m)] = m[1]
       /\ allNameChars(SubSeq(m, 2, Len(m) - 1))

\* \s*(['"]?)[\w\s\-]+?\1\s* : one entry of the list.
matchesEntry(p) ==
    \E i \in 0..Len(p), j \in 0..Len(p) :
        /\ i + j <= Len(p)
        /\ allSpaces(SubSeq(p, 1, i))
        /\ allSpaces(SubSeq(p, Len(p) - j + 1, Len(p)))
        /\ matchesName(SubSeq(p, i + 1, Len(p) - j))

\* fontFamilyPattern.test(val): a name character is never a comma, so the
\* entries of a match are the parts between the commas.
matchesFontFamilyPattern(val) ==
    LET parts == splitComma(val, <<>>)
    IN  \A k \in 1..Len(parts) : matchesEntry(parts[k])

isValidFontFamily(val) ==
    IF val = NotAString \/ allSpaces(val) THEN FALSE
    ELSE matchesFontFamilyPattern(val)

fontConstructed ==
    [value |-> defaultFonts[1], defaultFont |-> font_Sans,
     events |-> 0, bubbles |-> 0, err |-> "none"]

\* setChoiceByValue selects the choice with that value, if there is one.
fontSetValue(st, newVal) ==
    IF \E k \in 1..Len(defaultFonts) : defaultFonts[k] = newVal
    THEN [st EXCEPT !.value = newVal, !.events = @ + 1, !.bubbles = @ + 1]
    ELSE [st EXCEPT !.events = @ + 1, !.bubbles = @ + 1]

fontReset(st) == fontSetValue(st, st.defaultFont)

fontSetDefaults(st, value, withReset) ==
    IF ~isValidFontFamily(value) THEN [st |-> st, err |-> "InvalidFontFamilyString"]
    ELSE [st |-> IF withReset THEN fontReset([st EXCEPT !.defaultFont = value])
                 ELSE [st EXCEPT !.defaultFont = value],
          err |-> "none"]

----------------------------------------------------------------------------
(* Control registry and dispatcher                                         *)
(*                                                                         *)
(* An argument of generateControl is a string of the model; the strings of *)
(* NonStrings stand for values that are not strings, "<undefined>" also    *)
(* for an argument that is not supplied.                                   *)

\* The exports of controls/index.js named generate<Name>Control: <Name> and
\* the factory's use metadata ("<undefined>": the factory carries none).
generators ==
    { [name |-> "FontSize", use |-> "style"],
      [name |-> "Color", use |-> "<undefined>"],
      [name |-> "FontFamily", use |-> "<undefined>"],
      [name |-> "RadioTabs", use |-> "control"] }

ControlTypes == {g.name : g \in generators}

generatorRegistry == [t \in ControlTypes |-> CHOOSE g \in generators : g.name = t]

argAt(args, k) == IF k <= Len(args) THEN args[k] ELSE "<undefined>"

\* typeof v !== 'string' || !v.length
notNonEmptyString(v) == ~isString(v) \/ v = ""

\* What a dispatch ends in: the error thrown before any factory runs
\* ("none": the factory is invoked) and the arguments the factory gets.
Dispatch(err, invoked, fargs) == [err |-> err, invoked |-> invoked, fargs |-> fargs]

\* The style pattern checking the selector only.
callPatternStyle_SelectorOnly(controlType, args) ==
    IF notNonEmptyString(argAt(args, 1)) THEN Dispatch("InvalidArgumentShape", "none", <<>>)
    ELSE Dispatch("none", controlType, <<argAt(args, 1), argAt(args, 2)>>)

callPatternStyle(controlType, args) ==
    IF notNonEmptyString(argAt(args, 1)) THEN Dispatch("InvalidArgumentShape", "none", <<>>)
    ELSE IF notNonEmptyString(argAt(args, 2)) THEN Dispatch("InvalidArgumentShape", "none", <<>>)
    ELSE Dispatch("none", controlType, <<argAt(args, 1), argAt(args, 2)>>)

callPatternControl(controlType, args) ==
    IF notNonEmptyString(argAt(args, 1)) THEN Dispatch("InvalidArgumentShape", "none", <<>>)
    ELSE Dispatch("none", controlType, <<argAt(args, 1)>>)

\* generateControl without the check of controlType against ControlTypes.
generateControl_NoTypeCheck(controlType, args) ==
    IF controlType \notin DOMAIN generatorRegistry
        THEN Dispatch("UnregisteredGenerator", "none", <<>>)
    ELSE LET fn == generatorRegistry[controlType]
         IN  IF fn.use = "<undefined>" THEN Dispatch("MissingCallModeMetadata", "none", <<>>)
             ELSE IF fn.use = "style" THEN callPatternStyle(controlType, args)
             ELSE IF fn.use = "control" THEN callPatternControl(controlType, args)
             ELSE Dispatch("UnsupportedCallMode", "none", <<>>)

generateControl(controlType, args) ==
    IF controlType \notin ControlTypes
        THEN Dispatch("UnsupportedControlType", "none", <<>>)
    ELSE IF controlType \notin DOMAIN generatorRegistry
        THEN Dispatch("UnregisteredGenerator", "none", <<>>)
    ELSE LET fn == generatorRegistry[controlType]
         IN  IF fn.use = "<undefined>" THEN Dispatch("MissingCallModeMetadata", "none", <<>>)
             ELSE IF fn.use = "style" THEN callPatternStyle(controlType, args)
             ELSE IF fn.use = "control" THEN callPatternControl(controlType, args)
             ELSE Dispatch("UnsupportedCallMode", "none", <<>>)

\* Promise.all([p, q]): rejected once either is, fulfilled once both are.
promiseAll_Either(p, q) ==
    IF p = "rejected" \/ q = "rejected" THEN "rejected"
    ELSE IF p = "fulfilled" \/ q = "fulfilled" THEN "fulfilled"
    ELSE "pending"

promiseAll(p, q) ==
    IF p = "rejected" \/ q = "rejected" THEN "rejected"
    ELSE IF p = "fulfilled" /\ q = "fulfilled" THEN "fulfilled"
    ELSE "pending"

\* Module load: loadPadlockSVG and the script element are under way, the
\* three promises pending, neither cache written.
loadsStarted ==
    [padlockLoad |-> "running", scriptLoad |-> "running",
     padlockLoaded |-> "pending", choicesLoaded |-> "pending", controlsReady |-> "pending",
     cloneWith |-> FALSE, padlockWrites |-> 0, choicesWrites |-> 0]

\* Both loads done and controlsReady fulfilled.
loadsReady ==
    [padlockLoad |-> "done", scriptLoad |-> "loaded",
     padlockLoaded |-> "fulfilled", choicesLoaded |-> "fulfilled",
     controlsReady |-> "fulfilled",
     cloneWith |-> TRUE, padlockWrites |-> 1, choicesWrites |-> 1]

\* What window.Choices is when the script's onload runs.
WindowChoices == {"function", "undefined"}

\* The error a factory throws when it runs ("none": it returns its control).
factoryError(name, padlock, choices) ==
    CASE name = "FontSize" -> IF padlock = "undefined" THEN "NotReady" ELSE "none"
      [] name = "Color" -> IF padlock = "undefined" THEN "NotReady" ELSE "none"
      [] name = "FontFamily" ->
            IF padlock = "undefined" \/ choices # "function" THEN "NotReady" ELSE "none"
      [] name = "RadioTabs" -> "none"

----------------------------------------------------------------------------
(* Control utilities: compound ids                                         *)
(*                                                                         *)
(* A selector, a parameter and an id are sequences of characters.          *)

delimiter == <<"-", "_", "-">>

generateID(selector, parameter) == selector \o delimiter \o parameter

\* String.prototype.split: the parts of str between the occurrences of sep,
\* found from the left, each search starting after the previous occurrence.
RECURSIVE split(_, _, _)
split(str, sep, cur) ==
    IF Len(str) < Len(sep) THEN <<cur \o str>>
    ELSE IF SubSeq(str, 1, Len(sep)) = sep
        THEN <<cur>> \o split(SubSeq(str, Len(sep) + 1, Len(str)), sep, <<>>)
    ELSE split(Tail(str), sep, Append(cur, Head(str)))

splitID(ID) ==
    LET parts == split(ID, delimiter, <<>>)
    IN  [selector |-> parts[1],
         parameter |-> IF Len(parts) >= 2 THEN parts[2] ELSE <<"<undefined>">>]

----------------------------------------------------------------------------
(* The em/px FontSize control (controls/FontSize.js)                       *)
(*                                                                         *)
(* The state is the unit the span shows and the min, max and value of the  *)
(* number input, read as numbers (an empty attribute reads 0); events      *)
(* counts the change events of the last call; clicks holds the unit, min   *)
(* and max before each of the clicks on the unit made in a row, the last   *)
(* two at most.                                                            *)

defaultPxSize == 16

fzMinimumMin == Whole(0)

fzMaximumMax == Whole(10)

pxToEm(pxSize) == roundTo(pxSize \div defaultPxSize, 1)

emToPx(emSize) == roundTo(emSize * defaultPxSize, 0)

\* decimalPlaces(div.step) for the step 0.1 the control is built with.
fzPrecision == 1

\* a > b in JavaScript.
gt(a, b) == a # NaN /\ b # NaN /\ a > b

\* The min setter: the value is raised to the absolute minimum of the unit
\* shown and lowered to the max the input has at this moment.
fzSetMin(st, value) ==
    LET unitMin == IF st.unit = "px" THEN emToPx(fzMinimumMin) ELSE fzMinimumMin
        clamped == MathMax(unitMin, ToNumber(value))
    IN  [st EXCEPT !.min = IF gt(clamped, st.max) THEN st.max ELSE clamped]

fzSetMax(st, value) ==
    LET unitMax == IF st.unit = "px" THEN emToPx(fzMaximumMax) ELSE fzMaximumMax
        clamped == MathMin(unitMax, ToNumber(value))
    IN  [st EXCEPT !.max = IF gt(st.min, clamped) THEN st.min ELSE clamped]

fzSetParams(st, min, max) ==
    LET unitMin == IF st.unit = "px" THEN emToPx(fzMinimumMin) ELSE fzMinimumMin
        unitMax == IF st.unit = "px" THEN emToPx(fzMaximumMax) ELSE fzMaximumMax
        lo == MathMax(unitMin, min)
        hi == MathMin(unitMax, max)
    IN  fzSetMax(fzSetMin(st, lo), IF gt(lo, hi) THEN lo ELSE hi)

fzSetValue(st, value) ==
    [st EXCEPT !.value = MathMin(MathMax(value, st.min), st.max), !.events = @ + 1]

\* The click listener of the unit span.
fzClick(st) ==
    IF st.unit = "em"
    THEN LET px == [st EXCEPT !.unit = "px"]
             set == fzSetParams(px, emToPx(px.min), emToPx(px.max))
         IN  fzSetValue(set, roundTo(emToPx(set.value), fzPrecision))
    ELSE LET em == [st EXCEPT !.unit = "em"]
             set == fzSetParams(em, pxToEm(em.min), pxToEm(em.max))
         IN  fzSetValue(set, roundTo(pxToEm(set.value), fzPrecision))

\* The start of a call on the control.
fzBegan(st) == [st EXCEPT !.events = 0]

\* The control as generateFontSizeControl returns it: setParams(0, 5, 0.1) and
\* value = 1 on inputs without min, max and value.
fzConstructed ==
    fzBegan(fzSetValue(fzSetParams([unit |-> "em", min |-> 0, max |-> 0, value |-> 0,
                                    events |-> 0, clicks |-> <<>>], Whole(0), Whole(5)),
                       Whole(1)))

----------------------------------------------------------------------------
(* The RadioTabs control                                                   *)
(*                                                                         *)
(* A label is a sequence of characters.  The state is the list _tabs and   *)
(* the radios of the tab container in document order, each with its id,    *)
(* the text of its label and its checked flag; ret is what the last call   *)
(* returned, events the change events dispatched on the control in it,     *)
(* adds and deletes the numbers of tabs added and removed so far, op and   *)
(* arg the last call and its first argument.                               *)

\* null
Null == <<"<null>">>

isLabelString(text) == text # NotAString /\ text # Null

RECURSIVE trimStart(_)
trimStart(str) == IF str # <<>> /\ Head(str) = " " THEN trimStart(Tail(str)) ELSE str

RECURSIVE trimEnd(_)
trimEnd(str) ==
    IF str # <<>> /\ str[Len(str)] = " " THEN trimEnd(SubSeq(str, 1, Len(str) - 1)) ELSE str

\* str.trim()
trim(str) == trimEnd(trimStart(str))

\* str.replace(/\s+/g, '_')
RECURSIVE replaceSpaces(_)
replaceSpaces(str) ==
    IF str = <<>> THEN <<>>
    ELSE IF Head(str) = " " THEN <<"_">> \o replaceSpaces(trimStart(str))
    ELSE <<Head(str)>> \o replaceSpaces(Tail(str))

sanitizeId(str) == replaceSpaces(trim(str))

\* The id the control was generated with.
rtId == <<"t">>

validateText(text) ==
    /\ isLabelString(text)
    /\ trim(text) # <<>>
    /\ \A k \in 1..Len(text) : text[k] \notin {"<", ">"}

\* The radio generateTab builds for a label, unchecked.
generateTab(labelText) ==
    [id |-> sanitizeId(labelText) \o <<"-">> \o sanitizeId(rtId), label |-> labelText,
     checked |-> FALSE]

\* radio.checked = true on radio k: the other radios of the group are unchecked.
check(radios, k) == [j \in 1..Len(radios) |-> [radios[j] EXCEPT !.checked = (j = k)]]

\* A rebuild that checks the radio of the label checked before, if it is
\* still a tab.
populateTabs_KeepsSelection(st) ==
    LET radios == [k \in 1..Len(st.tabs) |-> generateTab(st.tabs[k])]
        kept == {k \in 1..Len(radios) :
                    \E j \in 1..Len(st.radios) :
                        st.radios[j].checked /\ st.radios[j].label = radios[k].label}
    IN  IF Len(st.tabs) > 0
        THEN [st EXCEPT !.radios = check(radios, IF kept = {} THEN 1 ELSE CHOOSE k \in kept : TRUE),
                        !.events = @ + 1]
        ELSE [st EXCEPT !.radios = radios]

\* clearTabs and the rebuild of the radios; with no radio checked the first is
\* checked and its change event reaches the control through the tab's listener.
populateTabs(st) ==
    LET radios == [k \in 1..Len(st.tabs) |-> generateTab(st.tabs[k])]
    IN  IF Len(st.tabs) > 0
        THEN [st EXCEPT !.radios = check(radios, 1), !.events = @ + 1]
        ELSE [st EXCEPT !.radios = radios]

rtConstructed ==
    populateTabs([tabs |-> <<>>, radios |-> <<>>, ret |-> "-", events |-> 0, adds |-> 0,
                  deletes |-> 0, op |-> "-", arg |-> <<>>])

\* The start of a call on the control.
rtBegan(st) == [st EXCEPT !.ret = "undefined", !.events = 0]

\* The state a call leaves, with the call recorded.
RtCall(st, op, arg) == [st EXCEPT !.op = op, !.arg = arg]

includes(tabs, text) == \E k \in 1..Len(tabs) : tabs[k] = text

indexOf(tabs, text) == CHOOSE k \in 1..Len(tabs) : tabs[k] = text /\ \A j \in 1..(k - 1) : tabs[j] # text

\* tabs.splice(index, 0, text), index counted from 0.
splice(tabs, index, text) == SubSeq(tabs, 1, index) \o <<text>> \o SubSeq(tabs, index + 1, Len(tabs))

appendTab_NoDuplicateCheck(st, tabText, afterTab) ==
    IF ~validateText(tabText) THEN [st EXCEPT !.ret = "false"]
    ELSE LET tabs == IF afterTab # Null /\ afterTab # <<>> /\ includes(st.tabs, afterTab)
                     THEN splice(st.tabs, indexOf(st.tabs, afterTab), tabText)
                     ELSE Append(st.tabs, tabText)
         IN  [populateTabs([st EXCEPT !.tabs = tabs]) EXCEPT !.ret = "true", !.adds = @ + 1]

appendTab_AlwaysAtEnd(st, tabText, afterTab) ==
    IF ~validateText(tabText) \/ includes(st.tabs, tabText) THEN [st EXCEPT !.ret = "false"]
    ELSE [populateTabs([st EXCEPT !.tabs = Append(st.tabs, tabText)])
             EXCEPT !.ret = "true", !.adds = @ + 1]

appendTab(st, tabText, afterTab) ==
    IF ~validateText(tabText) THEN [st EXCEPT !.ret = "false"]
    ELSE IF includes(st.tabs, tabText) THEN [st EXCEPT !.ret = "false"]
    ELSE LET tabs == IF afterTab # Null /\ afterTab # <<>> /\ includes(st.tabs, afterTab)
                     THEN splice(st.tabs, indexOf(st.tabs, afterTab), tabText)
                     ELSE Append(st.tabs, tabText)
         IN  [populateTabs([st EXCEPT !.tabs = tabs]) EXCEPT !.ret = "true", !.adds = @ + 1]

prependTab(st, tabText, beforeTab) ==
    IF ~validateText(tabText) THEN [st EXCEPT !.ret = "false"]
    ELSE IF includes(st.tabs, tabText) THEN [st EXCEPT !.ret = "false"]
    ELSE LET tabs == IF beforeTab # Null /\ beforeTab # <<>> /\ includes(st.tabs, beforeTab)
                     THEN splice(st.tabs, indexOf(st.tabs, beforeTab) - 1, tabText)
                     ELSE <<tabText>> \o st.tabs
         IN  [populateTabs([st EXCEPT !.tabs = tabs]) EXCEPT !.ret = "true", !.adds = @ + 1]

deleteTab(st, tabText) ==
    IF includes(st.tabs, tabText)
    THEN LET index == indexOf(st.tabs, tabText)
         IN  [populateTabs([st EXCEPT !.tabs = SubSeq(@, 1, index - 1) \o
                                                SubSeq(@, index + 1, Len(@))])
                 EXCEPT !.deletes = @ + 1]
    ELSE st

count(st) == Len(st.tabs)

\* The first radio that satisfies a test: its index, 0 when there is none.
firstChecked(radios) ==
    IF \E k \in 1..Len(radios) : radios[k].checked
    THEN CHOOSE k \in 1..Len(radios) :
            radios[k].checked /\ \A j \in 1..(k - 1) : ~radios[j].checked
    ELSE 0

firstWithId(radios, id) ==
    IF \E k \in 1..Len(radios) : radios[k].id = id
    THEN CHOOSE k \in 1..Len(radios) : radios[k].id = id /\ \A j \in 1..(k - 1) : radios[j].id # id
    ELSE 0

\* The value getter: the trimmed text of the first label whose for attribute is
\* the id of the checked radio, null with no radio checked; the selector
\* label[for="id"] is no valid selector when the id holds a double quote.
rtGetValue(st) ==
    LET c == firstChecked(st.radios)
    IN  IF c = 0 THEN [value |-> Null, err |-> "none"]
        ELSE IF \E k \in 1..Len(st.radios[c].id) : st.radios[c].id[k] = "\""
        THEN [value |-> Null, err |-> "SyntaxError"]
        ELSE [value |-> trim(st.radios[firstWithId(st.radios, st.radios[c].id)].label),
              err |-> "none"]

\* The value setter: the first radio with the sanitized id is checked and
\* dispatches change, which the tab's listener passes on to the control, and
\* the setter dispatches change on the control once more.
rtSetValue(st, newValue) ==
    LET k == firstWithId(st.radios, sanitizeId(newValue) \o <<"-">> \o sanitizeId(rtId))
    IN  IF k = 0 THEN st
        ELSE [st EXCEPT !.radios = check(@, k), !.events = @ + 2]

\* A click on the label of tab k: it activates the first element with the id
\* of its for attribute; a radio that was unchecked fires change.
clickTab(st, k) ==
    LET target == firstWithId(st.radios, st.radios[k].id)
    IN  IF st.radios[target].checked THEN st
        ELSE [st EXCEPT !.radios = check(@, target), !.events = @ + 1]

----------------------------------------------------------------------------
(* Utilities: cloneWith                                                    *)
(*                                                                         *)
(* A value is a record of its kind, its properties and its attributes      *)
(* ("<absent>": not set).  The kinds: "element"; "text", a node that has   *)
(* cloneNode and no setAttribute; "object", an object without cloneNode;   *)
(* "null".                                                                 *)

\* The properties of an element among the keys: id takes any string, hidden
\* reads back as a boolean, tagName has no setter.
ElementProps == {"id", "hidden", "tagName"}

ChangeKeys == ElementProps \cup {"data-locked", "data locked"}

\* key in clone
hasProp(clone, key) == clone.kind = "element" /\ key \in ElementProps

\* clone[key] = value, in strict mode: the node after it, and the error thrown.
assignProp(clone, key, value) ==
    CASE key = "id" -> [node |-> [clone EXCEPT !.props[key] = value], err |-> "none"]
      [] key = "hidden" -> [node |-> [clone EXCEPT !.props[key] = "<true>"], err |-> "none"]
      [] OTHER -> [node |-> clone, err |-> "TypeError"]

\* clone.setAttribute(key, value): no function on a node that is no element,
\* InvalidCharacterError for a name with a space.
setAttribute(clone, key, value) ==
    IF clone.kind # "element" THEN [node |-> clone, err |-> "TypeError"]
    ELSE IF key = "data locked" THEN [node |-> clone, err |-> "InvalidCharacterError"]
    ELSE [node |-> [clone EXCEPT !.attrs[key] = value], err |-> "none"]

\* One entry of the changes.
applyChange(clone, key, value) ==
    IF hasProp(clone, key)
    THEN LET a == assignProp(clone, key, value)
         IN  IF a.err # "none" THEN setAttribute(clone, key, value)
             ELSE IF a.node.props[key] # value THEN setAttribute(a.node, key, value)
             ELSE a
    ELSE setAttribute(clone, key, value)

\* The loop over Object.entries(changes) from entry k on; a throw ends it.
RECURSIVE applyChanges(_, _, _)
applyChanges(clone, changes, k) ==
    IF k > Len(changes) THEN [node |-> clone, err |-> "none"]
    ELSE LET r == applyChange(clone, changes[k][1], changes[k][2])
         IN  IF r.err # "none" THEN r ELSE applyChanges(r.node, changes, k + 1)

Node(kind) ==
    [kind |-> kind, props |-> [k \in ElementProps |-> "s"],
     attrs |-> [k \in ChangeKeys |-> "<absent>"]]

\* cloneWith(source, changes): the value it returns (null, or the clone),
\* the error it throws, and the source after the call.
cloneWith(source, changes) ==
    IF source.kind \in {"null", "object"}
    THEN [returned |-> Node("null"), err |-> "none", source |-> source]
    ELSE LET r == applyChanges(source, changes, 1)
         IN  [returned |-> r.node, err |-> r.err, source |-> source]

----------------------------------------------------------------------------
(* Utilities: sanitizeSVGIds                                               *)
(*                                                                         *)
(* An SVG subtree is the sequence of its elements in document order, the   *)
(* root first.  An element has an id ("<none>": no id attribute), the      *)
(* value of one of the referencing attributes, and, for a <style> element, *)
(* the id named by a url(#id) of its text ("<none>": no such text).  An    *)
(* attribute value is held by its form: "url" for url(#id), "hash" for     *)
(* #id, "quoted" for url("#id"), which neither pattern matches, "none"     *)
(* when the attribute is absent.  The random suffixes drawn by a call are  *)
(* the sequence sfx of the draws its do-while loops ended on.              *)

NoAttr == [form |-> "none", id |-> "<none>"]

Element(id, attr, css) == [id |-> id, attr |-> attr, css |-> css]

\* The elements querySelectorAll reaches from the root: its descendants.
querySelectorAll(svg) == 2..Len(svg)

\* Step 1: the ids of the elements with an id.
collectIds(svg) == {svg[k].id : k \in {j \in querySelectorAll(svg) : svg[j].id # "<none>"}}

\* idMap.set(oldId, newId)
mapSet(idMap, oldId, newId) == {p \in idMap : p[1] # oldId} \cup {<<oldId, newId>>}

mapHas(idMap, id) == \E p \in idMap : p[1] = id

mapGet(idMap, id) == (CHOOSE p \in idMap : p[1] = id)[2]

\* Step 2 from element k on: each element with an id gets oldId-suffix, the
\* suffix being the draw sfx[k]; ok is FALSE when a loop would not have ended
\* on its draw, the id being in use.
RECURSIVE renameIds(_, _, _, _, _)
renameIds(svg, k, usedIds, idMap, sfx) ==
    IF k > Len(svg) THEN [svg |-> svg, idMap |-> idMap, ok |-> TRUE]
    ELSE IF svg[k].id = "<none>" THEN renameIds(svg, k + 1, usedIds, idMap, sfx)
    ELSE LET oldId == svg[k].id
             newId == oldId \o "-" \o sfx[k]
         IN  IF newId \in usedIds THEN [svg |-> svg, idMap |-> idMap, ok |-> FALSE]
             ELSE renameIds([svg EXCEPT ![k].id = newId], k + 1, usedIds \cup {newId},
                            mapSet(idMap, oldId, newId), sfx)

\* Step 3 on one attribute value: url(#id) and #id are rewritten when idMap
\* has the id.
rewriteAttr(attr, idMap) ==
    IF attr.form \in {"url", "hash"} /\ mapHas(idMap, attr.id)
    THEN [attr EXCEPT !.id = mapGet(idMap, attr.id)]
    ELSE attr

\* Step 4 on one style text.
rewriteCss(css, idMap) == IF css # "<none>" /\ mapHas(idMap, css) THEN mapGet(idMap, css) ELSE css

\* Steps 3 and 4 over the elements querySelectorAll reaches.
rewriteReferences(svg, idMap) ==
    [k \in 1..Len(svg) |->
        IF k \in querySelectorAll(svg)
        THEN [svg[k] EXCEPT !.attr = rewriteAttr(@, idMap), !.css = rewriteCss(@, idMap)]
        ELSE svg[k]]

\* sanitizeSVGIds(svg): the subtree as it leaves it and the map it returns;
\* for a value that is no SVGElement it returns undefined and changes nothing.
sanitizeSVGIds(svg, sfx) ==
    IF svg = <<>> THEN [svg |-> svg, idMap |-> {}, returned |-> "undefined", ok |-> TRUE]
    ELSE LET r == renameIds(svg, 2, collectIds(svg), {}, sfx)
         IN  [svg |-> rewriteReferences(r.svg, r.idMap), idMap |-> r.idMap,
              returned |-> "Map", ok |-> r.ok]

----------------------------------------------------------------------------
(* Inputs                                                                  *)

\* Numbers assigned to value, min and max.
LiveInputs == {NaN, Infinity, Dec(-100), Dec(245), Dec(800), Dec(2000), Dec(99900)}

UnitInputs == {"px", "em", "pt"}

Cfg(u, mn, mx, v) == [units |-> u, min |-> mn, max |-> mx, value |-> v]

NoCfg == Cfg("-", Undef, Undef, Undef)

\* Configurations handed to setDefaults.
DefaultConfigs ==
    { Cfg("px", Dec(800), Dec(2000), Dec(1040)),
      Cfg("em", Dec(25), Dec(245), Dec(124)),
      Cfg("px", Dec(40), Dec(11160), Dec(1650)),
      Cfg("pt", Dec(0), Dec(1000), Dec(2000)),
      Cfg("px", Dec(0), Dec(1000), Dec(2000)),
      Cfg("em", Dec(100), NaN, Dec(100)) }

\* The arguments of a first setDefaults call: every combination of these.
SDUnits == {"px", "em", "pt", "<undefined>"}

SDNumbers ==
    {Undef, NaN, Dec(-100), Dec(0), Dec(4), Dec(245), Dec(696), Dec(704), Dec(1000),
     Dec(2000), Dec(11160), Dec(11200), Dec(11240), Dec(99900)}

AllConfigs == {Cfg(u, a, b, c) : u \in SDUnits, a \in SDNumbers, b \in SDNumbers, c \in SDNumbers}

\* generateControl: the control types asked for and the arguments after it.
MaxArgs == 2

TypeInputs == ControlTypes \cup {"NoSuchType", "fontsize", "<undefined>"}

ArgInputs == {"body", "", "<number>"}

ArgLists == UNION {[1..n -> ArgInputs] : n \in 0..MaxArgs}

\* Selectors and parameters: every string of at most MaxIdLen of these characters.
MaxIdLen == 3

IdChars == {"-", "_", "x"}

IdStrings == UNION {[1..n -> IdChars] : n \in 0..MaxIdLen}

\* Font-family strings: every string of at most MaxFontLen of these characters.
MaxFontLen == 4

FontChars == {"a", "-", " ", ",", "'", "\"", "!"}

FontStrings == UNION {[1..n -> FontChars] : n \in 0..MaxFontLen} \cup {NotAString}

\* Values assigned to locked: true, false, a string, null.
LockedInputs == {"true", "false", "yes", "<null>"}

\* Labels: valid ones, two of them with the same sanitized form and two with
\* the same trimmed form, and the ones validateText rejects.
LabelInputs ==
    {<<"a">>, <<" ", "a">>, <<"a", " ", "a">>, <<"a", "_", "a">>, <<"\"">>,
     <<" ">>, <<"a", "<">>, NotAString}

\* The tab an insertion refers to: a label, or null.
RefInputs == {Null, <<"a">>, <<"a", "_", "a">>, <<"\"">>}

\* The numbers of tabs added and deleted in a run.
MaxAdds == 3

MaxDeletes == 2

\* Finite numbers assigned to min, max and value of the em/px control.
FzInputs == {Dec(-100), Dec(0), Dec(30), Dec(100), Dec(250), Dec(500), Dec(1600), Dec(20000)}

\* Sources and changes of cloneWith.
SourceInputs == {Node("null"), Node("object"), Node("element"), Node("text")}

MaxChanges == 2

ChangeValues == {"x", "y"}

ChangeInputs ==
    UNION {{c \in [1..n -> ChangeKeys \X ChangeValues] :
               \A i \in 1..n, j \in 1..n : c[i][1] = c[j][1] => i = j} : n \in 0..MaxChanges}

\* SVG subtrees: a root and up to MaxNodes - 1 descendants; << >> stands for
\* a value that is no SVGElement.
MaxNodes == 3

SvgIds == {"<none>", "a", "a-s1"}

SvgAttrs ==
    {NoAttr, [form |-> "url", id |-> "a"], [form |-> "hash", id |-> "a"],
     [form |-> "quoted", id |-> "a"]}

RootElements == {Element(i, at, "<none>") : i \in SvgIds, at \in SvgAttrs}

\* The descendants: elements with any id and attribute, and a <style> whose
\* text holds url(#a).
Elements ==
    {Element(i, at, "<none>") : i \in SvgIds, at \in SvgAttrs} \cup {Element("<none>", NoAttr, "a")}

SvgInputs ==
    {<<>>} \cup UNION {{<<r>> \o d : r \in RootElements, d \in [1..n -> Elements]} :
                       n \in 0..(MaxNodes - 1)}

\* The suffixes Math.random().toString(36).slice(2, 8) gives.
Suffixes == {"s1", "s2"}

\* The padlock templates: subtrees whose elements have ids only.
TemplateInputs ==
    {svg \in SvgInputs :
        /\ svg # <<>>
        /\ \A k \in 1..Len(svg) : svg[k].attr = NoAttr /\ svg[k].css = "<none>"}

\* The id a control gives its padlock.
PadlockIds == {"p"}

\* The number of padlocks cloned from the template.
MaxClones == 2

ColorInputs == {"#336699", "#AABBCC", "red", "not-a-color", "  ", "<undefined>"}

FontInputs ==
    { font_Serif, font_Roboto,
      <<"C", "o", "m", "i", "c", " ", "S", "a", "n", "s", " ", "M", "S">>,
      <<"a", ",", ",", "b">>,
      <<"'", "L", "o", "r", "a", "\"", ",", " ", "s", "e", "r", "i", "f">>,
      <<" ", " ">>,
      NotAString }

----------------------------------------------------------------------------
(* The instance                                                            *)

\* A call: its name, its arguments (a number, a string or a configuration) and
\* the error it threw ("none": it returned).
Call(op, arg, unit, cfg, withReset, err) ==
    [op |-> op, arg |-> arg, unit |-> unit, cfg |-> cfg, str |-> <<>>,
     withReset |-> withReset, err |-> err]

StrCall(op, str, withReset, err) ==
    [op |-> op, arg |-> Undef, unit |-> "-", cfg |-> Cfg("-", Undef, Undef, Undef),
     str |-> str, withReset |-> withReset, err |-> err]

\* The state at the start of a call: no event dispatched, nothing thrown yet.
began(st) == [st EXCEPT !.events = 0, !.bubbles = 0, !.err = "none"]

GenCall(type, args, d, err) ==
    [type |-> type, args |-> args, invoked |-> d.invoked, fargs |-> d.fargs, err |-> err]

NoGen == GenCall("-", <<>>, Dispatch("none", "none", <<>>), "none")

\* A run of a factory: its name, the two caches as it read them, how it ended.
FactoryCall(name, err) ==
    [name |-> name, padlock |-> padlockTemplate, choices |-> Choices, err |-> err]

NoFactoryCall == [name |-> "-", padlock |-> "-", choices |-> "-", err |-> "none"]

NoUtil == [fn |-> "-"]

\* One control, constructed with both assets loaded.
Init ==
    /\ ctl \in {"FontSize", "Color", "FontFamily"}
    /\ fs = began(fsConstructed)
    /\ col = colConstructed
    /\ font = fontConstructed
    /\ padlockTemplate = "svg"
    /\ Choices = "function"
    /\ gen = NoGen
    /\ made = NoFactoryCall
    /\ loads = loadsReady
    /\ util = NoUtil
    /\ rt = rtConstructed
    /\ fz = fzConstructed
    /\ last = Call("construct", Undef, "-", NoCfg, FALSE, "none")

AssignValue ==
    /\ ctl = "FontSize"
    /\ \E val \in LiveInputs :
        /\ fs' = setValue(began(fs), val)
        /\ last' = Call("value", val, "-", NoCfg, FALSE, fs'.err)
        /\ UNCHANGED <<rt, fz, ctl, col, font, padlockTemplate, Choices, gen, made, loads, util>>

AssignMin ==
    /\ ctl = "FontSize"
    /\ \E val \in LiveInputs :
        /\ fs' = setMin(began(fs), val)
        /\ last' = Call("min", val, "-", NoCfg, FALSE, fs'.err)
        /\ UNCHANGED <<rt, fz, ctl, col, font, padlockTemplate, Choices, gen, made, loads, util>>

AssignMax ==
    /\ ctl = "FontSize"
    /\ \E val \in LiveInputs :
        /\ fs' = setMax(began(fs), val)
        /\ last' = Call("max", val, "-", NoCfg, FALSE, fs'.err)
        /\ UNCHANGED <<rt, fz, ctl, col, font, padlockTemplate, Choices, gen, made, loads, util>>

AssignUnits ==
    /\ ctl = "FontSize"
    /\ \E u \in UnitInputs :
        /\ fs' = setUnits(began(fs), u)
        /\ last' = Call("units", Undef, u, NoCfg, FALSE, fs'.err)
        /\ UNCHANGED <<rt, fz, ctl, col, font, padlockTemplate, Choices, gen, made, loads, util>>

\* A click on the unit label; the call record keeps the value and the unit
\* shown before the click.
ClickUnit ==
    /\ ctl = "FontSize"
    /\ fs' = setUnits(began(fs), IF fs.units = "em" THEN defaultUnitType ELSE "em")
    /\ last' = Call("clickUnit", getValue(fs), fs.units, NoCfg, FALSE, fs'.err)
    /\ UNCHANGED <<rt, fz, ctl, col, font, padlockTemplate, Choices, gen, made, loads, util>>

CallReset ==
    /\ ctl = "FontSize"
    /\ fs' = reset(began(fs))
    /\ last' = Call("reset", Undef, "-", NoCfg, FALSE, fs'.err)
    /\ UNCHANGED <<rt, fz, ctl, col, font, padlockTemplate, Choices, gen, made, loads, util>>

CallSetDefaults ==
    /\ ctl = "FontSize"
    /\ \E cfg \in DefaultConfigs, withReset \in BOOLEAN :
        LET r == setDefaults(began(fs), cfg, withReset)
        IN  /\ fs' = r.st
            /\ last' = Call("setDefaults", Undef, "-", cfg, withReset, r.err)
            /\ UNCHANGED <<rt, fz, ctl, col, font, padlockTemplate, Choices, gen, made, loads, util>>

ColAssignValue ==
    /\ ctl = "Color"
    /\ \E v \in ColorInputs :
        /\ col' = colSetValue(began(col), v)
        /\ last' = StrCall("value", <<v>>, FALSE, "none")
        /\ UNCHANGED <<rt, fz, ctl, fs, font, padlockTemplate, Choices, gen, made, loads, util>>

ColCallReset ==
    /\ ctl = "Color"
    /\ col' = colReset(began(col))
    /\ last' = StrCall("reset", <<>>, FALSE, "none")
    /\ UNCHANGED <<rt, fz, ctl, fs, font, padlockTemplate, Choices, gen, made, loads, util>>

ColCallSetDefaults ==
    /\ ctl = "Color"
    /\ \E v \in ColorInputs, withReset \in BOOLEAN :
        LET r == colSetDefaults(began(col), v, withReset)
        IN  /\ col' = r.st
            /\ last' = StrCall("setDefaults", <<v>>, withReset, r.err)
            /\ UNCHANGED <<rt, fz, ctl, fs, font, padlockTemplate, Choices, gen, made, loads, util>>

FontAssignValue ==
    /\ ctl = "FontFamily"
    /\ \E v \in FontInputs \ {NotAString} :
        /\ font' = fontSetValue(began(font), v)
        /\ last' = StrCall("value", v, FALSE, "none")
        /\ UNCHANGED <<rt, fz, ctl, fs, col, padlockTemplate, Choices, gen, made, loads, util>>

\* The user picks an entry of the dropdown.
FontChoose ==
    /\ ctl = "FontFamily"
    /\ \E k \in 1..Len(defaultFonts) :
        /\ font' = [began(font) EXCEPT !.value = defaultFonts[k], !.events = 1, !.bubbles = 1]
        /\ last' = StrCall("choose", defaultFonts[k], FALSE, "none")
        /\ UNCHANGED <<rt, fz, ctl, fs, col, padlockTemplate, Choices, gen, made, loads, util>>

FontCallReset ==
    /\ ctl = "FontFamily"
    /\ font' = fontReset(began(font))
    /\ last' = StrCall("reset", <<>>, FALSE, "none")
    /\ UNCHANGED <<rt, fz, ctl, fs, col, padlockTemplate, Choices, gen, made, loads, util>>

FontCallSetDefaults ==
    /\ ctl = "FontFamily"
    /\ \E v \in FontInputs, withReset \in BOOLEAN :
        LET r == fontSetDefaults(began(font), v, withReset)
        IN  /\ font' = r.st
            /\ last' = StrCall("setDefaults", v, withReset, r.err)
            /\ UNCHANGED <<rt, fz, ctl, fs, col, padlockTemplate, Choices, gen, made, loads, util>>

Next ==
    \/ AssignValue
    \/ AssignMin
    \/ AssignMax
    \/ AssignUnits
    \/ ClickUnit
    \/ CallReset
    \/ CallSetDefaults
    \/ ColAssignValue
    \/ ColCallReset
    \/ ColCallSetDefaults
    \/ FontAssignValue
    \/ FontChoose
    \/ FontCallReset
    \/ FontCallSetDefaults

Spec == Init /\ [][Next]_vars

\* A call whose numbers are all finite.
finiteCall(call) ==
    \A x \in {call.arg, call.cfg.min, call.cfg.max, call.cfg.value} : x = Undef \/ IsFinite(x)

\* The calls on a FontSize control that pass finite numbers only.
NextFinite ==
    \/ AssignValue /\ finiteCall(last')
    \/ AssignMin /\ finiteCall(last')
    \/ AssignMax /\ finiteCall(last')
    \/ AssignUnits
    \/ CallReset
    \/ CallSetDefaults /\ finiteCall(last')

\* The first setDefaults call on a fresh FontSize control, with any arguments.
FirstSetDefaults ==
    /\ ctl = "FontSize"
    /\ last.op = "construct"
    /\ \E cfg \in AllConfigs, withReset \in BOOLEAN :
        LET r == setDefaults(began(fs), cfg, withReset)
        IN  /\ fs' = r.st
            /\ last' = Call("setDefaults", Undef, "-", cfg, withReset, r.err)
            /\ UNCHANGED <<rt, fz, ctl, col, font, padlockTemplate, Choices, gen, made, loads, util>>

InitFontSize == Init /\ ctl = "FontSize"

NextFirstDefaults == FirstSetDefaults

SpecFirstDefaults == InitFontSize /\ [][NextFirstDefaults]_vars

SpecFinite == InitFontSize /\ [][NextFinite]_vars

\* Module load: no control yet, neither asset loaded.
InitGenerate ==
    /\ ctl = "none"
    /\ fs = began(fsConstructed)
    /\ col = colConstructed
    /\ font = fontConstructed
    /\ last = Call("none", Undef, "-", NoCfg, FALSE, "none")
    /\ padlockTemplate = "undefined"
    /\ Choices = "undefined"
    /\ gen = NoGen
    /\ made = NoFactoryCall
    /\ loads = loadsStarted
    /\ util = NoUtil
    /\ rt = rtConstructed
    /\ fz = fzConstructed

\* loadPadlockSVG stores the parsed <svg>, attaches cloneWith to it and
\* resolves padlockLoaded.
PadlockLoads ==
    /\ loads.padlockLoad = "running"
    /\ padlockTemplate' = "svg"
    /\ loads' = [loads EXCEPT !.padlockLoad = "done", !.padlockWrites = @ + 1,
                              !.cloneWith = TRUE, !.padlockLoaded = "fulfilled"]
    /\ UNCHANGED <<rt, fz, ctl, fs, col, font, last, Choices, gen, made, util>>

\* The fetch fails or the document has no <svg>: loadPadlockSVG logs the
\* error and returns; padlockLoaded stays pending.
PadlockFails ==
    /\ loads.padlockLoad = "running"
    /\ loads' = [loads EXCEPT !.padlockLoad = "failed"]
    /\ UNCHANGED <<rt, fz, ctl, fs, col, font, last, padlockTemplate, Choices, gen, made, util>>

\* script.onload stores window.Choices and settles choicesLoaded on it.
ChoicesLoads ==
    /\ loads.scriptLoad = "running"
    /\ \E w \in WindowChoices :
        /\ Choices' = w
        /\ loads' = [loads EXCEPT !.scriptLoad = "loaded", !.choicesWrites = @ + 1,
                                  !.choicesLoaded = IF w = "undefined" THEN "rejected"
                                                    ELSE "fulfilled"]
    /\ UNCHANGED <<rt, fz, ctl, fs, col, font, last, padlockTemplate, gen, made, util>>

\* script.onerror rejects choicesLoaded.
ChoicesFails ==
    /\ loads.scriptLoad = "running"
    /\ loads' = [loads EXCEPT !.scriptLoad = "error", !.choicesLoaded = "rejected"]
    /\ UNCHANGED <<rt, fz, ctl, fs, col, font, last, padlockTemplate, Choices, gen, made, util>>

\* controlsReady settles once Promise.all of the two promises has.
ControlsReadySettles ==
    /\ loads.controlsReady = "pending"
    /\ promiseAll(loads.padlockLoaded, loads.choicesLoaded) # "pending"
    /\ loads' = [loads EXCEPT
                    !.controlsReady = promiseAll(loads.padlockLoaded, loads.choicesLoaded)]
    /\ UNCHANGED <<rt, fz, ctl, fs, col, font, last, padlockTemplate, Choices, gen, made, util>>

\* A factory called directly; when it returns, the instance is the new control.
CallFactory ==
    \E name \in ControlTypes :
        LET err == factoryError(name, padlockTemplate, Choices)
        IN  /\ made' = FactoryCall(name, err)
            /\ ctl' = IF err = "none" THEN name ELSE ctl
            /\ fs' = began(fsConstructed)
            /\ col' = colConstructed
            /\ font' = fontConstructed
            /\ last' = IF err = "none"
                       THEN Call("construct", Undef, "-", NoCfg, FALSE, "none")
                       ELSE last
            /\ UNCHANGED <<rt, fz, padlockTemplate, Choices, gen, loads, util>>

\* A generateControl call; when it returns, the instance is the new control.
GenerateControl ==
    \E controlType \in TypeInputs, args \in ArgLists :
        LET d == generateControl(controlType, args)
            err == IF d.err # "none" THEN d.err
                   ELSE factoryError(d.invoked, padlockTemplate, Choices)
        IN  /\ gen' = GenCall(controlType, args, d, err)
            /\ ctl' = IF err = "none" THEN d.invoked ELSE ctl
            /\ fs' = began(fsConstructed)
            /\ col' = colConstructed
            /\ font' = fontConstructed
            /\ last' = IF err = "none"
                       THEN Call("construct", Undef, "-", NoCfg, FALSE, "none")
                       ELSE last
            /\ made' = IF d.err = "none" THEN FactoryCall(d.invoked, err) ELSE made
            /\ UNCHANGED <<rt, fz, padlockTemplate, Choices, loads, util>>

NextGenerate ==
    \/ PadlockLoads
    \/ ChoicesLoads
    \/ GenerateControl

SpecGenerate == InitGenerate /\ [][NextGenerate]_vars

\* Start-up: the two loads in every outcome and order, controlsReady, and
\* factories called at any moment of it.
NextLoads ==
    \/ PadlockLoads
    \/ PadlockFails
    \/ ChoicesLoads
    \/ ChoicesFails
    \/ ControlsReadySettles
    \/ CallFactory

SpecLoads == InitGenerate /\ [][NextLoads]_vars

\* The browser ends the fetch and the script load, each with one of its
\* outcomes, and runs the reactions of settled promises.
SpecLoadsFair ==
    /\ SpecLoads
    /\ WF_vars(PadlockLoads \/ PadlockFails)
    /\ WF_vars(ChoicesLoads \/ ChoicesFails)
    /\ WF_vars(ControlsReadySettles)

\* A click on the padlock; the call record keeps the data-locked attribute of
\* before the click.
ClickPadlock ==
    /\ ctl = "FontSize"
    /\ fs' = setLocked(began(fs), IF locked(fs) THEN "false" ELSE "true")
    /\ last' = StrCall("clickPadlock", <<fs.dataLocked>>, FALSE, fs'.err)
    /\ UNCHANGED <<rt, fz, ctl, col, font, padlockTemplate, Choices, gen, made, loads, util>>

AssignLocked ==
    /\ ctl = "FontSize"
    /\ \E value \in LockedInputs :
        /\ fs' = setLocked(began(fs), value)
        /\ last' = StrCall("locked", <<value>>, FALSE, fs'.err)
        /\ UNCHANGED <<rt, fz, ctl, col, font, padlockTemplate, Choices, gen, made, loads, util>>

\* A FontSize control whose lock is clicked and assigned among assignments to
\* its value, clicks on its unit label and resets.
NextLocked ==
    \/ ClickPadlock
    \/ AssignLocked
    \/ AssignValue
    \/ ClickUnit
    \/ CallReset

SpecLocked == InitFontSize /\ [][NextLocked]_vars

\* The first setDefaults call on a fresh FontFamily control, with any string.
FontFirstSetDefaults ==
    /\ ctl = "FontFamily"
    /\ last.op = "construct"
    /\ \E v \in FontStrings, withReset \in BOOLEAN :
        LET r == fontSetDefaults(began(font), v, withReset)
        IN  /\ font' = r.st
            /\ last' = StrCall("setDefaults", v, withReset, r.err)
            /\ UNCHANGED <<rt, fz, ctl, fs, col, padlockTemplate, Choices, gen, made, loads, util>>

InitFontFamily == Init /\ ctl = "FontFamily"

NextFontDefaults == FontFirstSetDefaults

SpecFontDefaults == InitFontFamily /\ [][NextFontDefaults]_vars

FzAssignMin ==
    \E value \in FzInputs :
        /\ fz' = [fzSetMin(fzBegan(fz), value) EXCEPT !.clicks = <<>>]
        /\ UNCHANGED <<rt, ctl, fs, col, font, last, padlockTemplate, Choices, gen, made, loads, util>>

FzAssignMax ==
    \E value \in FzInputs :
        /\ fz' = [fzSetMax(fzBegan(fz), value) EXCEPT !.clicks = <<>>]
        /\ UNCHANGED <<rt, ctl, fs, col, font, last, padlockTemplate, Choices, gen, made, loads, util>>

FzAssignValue ==
    \E value \in FzInputs :
        /\ fz' = [fzSetValue(fzBegan(fz), value) EXCEPT !.clicks = <<>>]
        /\ UNCHANGED <<rt, ctl, fs, col, font, last, padlockTemplate, Choices, gen, made, loads, util>>

\* The user clicks the unit.
FzClickUnit ==
    /\ fz' = [fzClick(fzBegan(fz)) EXCEPT
                 !.clicks = IF @ = <<>> THEN <<<<fz.unit, fz.min, fz.max>>>>
                            ELSE <<@[Len(@)], <<fz.unit, fz.min, fz.max>>>>]
    /\ UNCHANGED <<rt, ctl, fs, col, font, last, padlockTemplate, Choices, gen, made, loads, util>>

NextEmPx == FzAssignMin \/ FzAssignMax \/ FzAssignValue \/ FzClickUnit

SpecEmPx == InitGenerate /\ [][NextEmPx]_vars

RtAppendTab ==
    \E tabText \in LabelInputs, afterTab \in RefInputs :
        LET done == appendTab(rtBegan(rt), tabText, afterTab)
        IN  /\ done.adds <= MaxAdds
            /\ rt' = RtCall(done, "appendTab", tabText)
            /\ UNCHANGED <<fz, ctl, fs, col, font, last, padlockTemplate, Choices, gen, made, loads, util>>

RtPrependTab ==
    \E tabText \in LabelInputs, beforeTab \in RefInputs :
        LET done == prependTab(rtBegan(rt), tabText, beforeTab)
        IN  /\ done.adds <= MaxAdds
            /\ rt' = RtCall(done, "prependTab", tabText)
            /\ UNCHANGED <<fz, ctl, fs, col, font, last, padlockTemplate, Choices, gen, made, loads, util>>

RtDeleteTab ==
    \E tabText \in LabelInputs :
        LET done == deleteTab(rtBegan(rt), tabText)
        IN  /\ done.deletes <= MaxDeletes
            /\ rt' = RtCall(done, "deleteTab", tabText)
            /\ UNCHANGED <<fz, ctl, fs, col, font, last, padlockTemplate, Choices, gen, made, loads, util>>

\* div.value = newValue with a string.
RtAssignValue ==
    \E newValue \in LabelInputs \ {NotAString} :
        /\ rt' = RtCall(rtSetValue(rtBegan(rt), newValue), "value", newValue)
        /\ UNCHANGED <<fz, ctl, fs, col, font, last, padlockTemplate, Choices, gen, made, loads, util>>

\* The user clicks a tab.
RtClickTab ==
    \E k \in 1..Len(rt.radios) :
        /\ rt' = RtCall(clickTab(rtBegan(rt), k), "click", rt.radios[k].label)
        /\ UNCHANGED <<fz, ctl, fs, col, font, last, padlockTemplate, Choices, gen, made, loads, util>>

NextTabs == RtAppendTab \/ RtPrependTab \/ RtDeleteTab \/ RtAssignValue \/ RtClickTab

SpecTabs == InitGenerate /\ [][NextTabs]_vars

\* cloneWith applied to a source and a changes object.
ApplyCloneWith ==
    /\ util.fn = "-"
    /\ \E source \in SourceInputs, changes \in ChangeInputs :
        LET r == cloneWith(source, changes)
        IN  util' = [fn |-> "cloneWith", arg |-> source, changes |-> changes,
                     returned |-> r.returned, err |-> r.err, source |-> r.source]
    /\ UNCHANGED <<rt, fz, ctl, fs, col, font, last, padlockTemplate, Choices, gen, made, loads>>

NextCloneWith == ApplyCloneWith

SpecCloneWith == InitGenerate /\ [][NextCloneWith]_vars

\* sanitizeSVGIds applied to a subtree, with any draws of the suffixes.
ApplySanitize ==
    /\ util.fn = "-"
    /\ \E svg \in SvgInputs, sfx \in [1..MaxNodes -> Suffixes] :
        LET r == sanitizeSVGIds(svg, sfx)
        IN  /\ r.ok
            /\ util' = [fn |-> "sanitizeSVGIds", source |-> svg, svg |-> r.svg,
                        idMap |-> r.idMap, returned |-> r.returned]
    /\ UNCHANGED <<rt, fz, ctl, fs, col, font, last, padlockTemplate, Choices, gen, made, loads>>

NextSanitize == ApplySanitize

SpecSanitize == InitGenerate /\ [][NextSanitize]_vars

\* padlockTemplate.cloneWith(changes): a deep clone of the template with the
\* changes applied to its root, then sanitized.
padlockCloneWith(template, id, sfx) == sanitizeSVGIds([template EXCEPT ![1].id = id], sfx)

\* The padlock file is loaded: its <svg> becomes the template.
TemplateLoaded ==
    /\ util.fn = "-"
    /\ \E svg \in TemplateInputs :
        util' = [fn |-> "padlockTemplate", template |-> svg, clones |-> <<>>]
    /\ UNCHANGED <<rt, fz, ctl, fs, col, font, last, padlockTemplate, Choices, gen, made, loads>>

\* A control clones the template for its padlock.
ClonePadlock ==
    /\ util.fn = "padlockTemplate"
    /\ Len(util.clones) < MaxClones
    /\ \E id \in PadlockIds, sfx \in [1..MaxNodes -> Suffixes] :
        LET r == padlockCloneWith(util.template, id, sfx)
        IN  /\ r.ok
            /\ util' = [util EXCEPT !.clones = Append(@, [svg |-> r.svg, idMap |-> r.idMap])]
    /\ UNCHANGED <<rt, fz, ctl, fs, col, font, last, padlockTemplate, Choices, gen, made, loads>>

NextClones == TemplateLoaded \/ ClonePadlock

SpecClones == InitGenerate /\ [][NextClones]_vars

\* generateID applied to a selector and a parameter.
ApplyGenerateID ==
    /\ util.fn = "-"
    /\ \E a \in IdStrings, b \in IdStrings :
        util' = [fn |-> "generateID", selector |-> a, parameter |-> b,
                 id |-> generateID(a, b)]
    /\ UNCHANGED <<rt, fz, ctl, fs, col, font, last, padlockTemplate, Choices, gen, made, loads>>

\* splitID applied to the id generateID returned.
ApplySplitID ==
    /\ util.fn = "generateID"
    /\ util' = [fn |-> "splitID", selector |-> util.selector, parameter |-> util.parameter,
                id |-> util.id, out |-> splitID(util.id)]
    /\ UNCHANGED <<rt, fz, ctl, fs, col, font, last, padlockTemplate, Choices, gen, made, loads>>

NextIds ==
    \/ ApplyGenerateID
    \/ ApplySplitID

SpecIds == InitGenerate /\ [][NextIds]_vars

----------------------------------------------------------------------------
(* Properties                                                              *)

\* a <= b as JavaScript compares numbers: false when either is NaN.
lte(a, b) == a # NaN /\ b # NaN /\ a <= b

\* The closure state without the events and the error of the last call.
fsData(st) == [st EXCEPT !.events = 0, !.bubbles = 0, !.err = "none"]

\* What the control reads back: units, min, max, value.
fsLive(st) == <<st.units, getMin(st), getMax(st), getValue(st)>>

fsDefaults(st) == <<st.defaultUnits, st.defaultMin, st.defaultMax, st.defaultValue>>

ConfigC4 == Cfg("pt", Dec(0), Dec(1000), Dec(2000))

ConfigC4px == Cfg("px", Dec(0), Dec(1000), Dec(2000))

\* C1: after any assignment to value, in any reachable state of a FontSize
\* control, the value read back lies between the min and the max read back.
C1_ValueWithinBounds ==
    (ctl = "FontSize" /\ last.op = "value") =>
        (lte(getMin(fs), getValue(fs)) /\ lte(getValue(fs), getMax(fs)))

\* C2: a FontSize setDefaults call that fails its validation leaves the
\* stored defaults and the live state as they were, with or without
\* withReset, and a reset after it does what a reset before it would have
\* done: where it returns, it reads back the defaults stored before the call.
C2_FailedSetDefaultsChangesNothing ==
    [][ (ctl = "FontSize" /\ last'.op = "setDefaults"
            /\ last'.err \notin {"none", "RangeError"}) =>
            /\ fsData(fs') = fsData(fs)
            /\ reset(began(fs')) = reset(began(fs))
            /\ ~thrown(reset(began(fs'))) => fsLive(reset(began(fs'))) = fsDefaults(fs) ]_vars

C2_Witness ==
    /\ ctl = "FontSize"
    /\ last.op = "setDefaults"
    /\ last.err = "ValueOutOfRange"
    /\ last.withReset
    /\ fs.defaultUnits = "em"
    /\ fsLive(fs) # fsDefaults(fs)

\* The error the checks listed in C3 give for cfg: the first that fails, in
\* the order missing field, invalid units, not a number, min below the
\* absolute minimum, max above the absolute maximum, min > max, value out of
\* range; "none" when none fails.
C3_Expected(cfg) ==
    LET k == IF cfg.units = "em" THEN defaultUnitSize ELSE 1
        numbers == \A x \in {cfg.min, cfg.max, cfg.value} : x \notin {Undef, NaN}
        failing ==
            {n \in 1..7 :
                \/ n = 1 /\ (cfg.units = "<undefined>" \/ Undef \in {cfg.min, cfg.max, cfg.value})
                \/ n = 2 /\ cfg.units \notin {"px", "em"}
                \/ n = 3 /\ NaN \in {cfg.min, cfg.max, cfg.value}
                \/ n = 4 /\ numbers /\ k * cfg.min < minimumMin
                \/ n = 5 /\ numbers /\ k * cfg.max > maximumMax
                \/ n = 6 /\ numbers /\ k * cfg.min > k * cfg.max
                \/ n = 7 /\ numbers
                         /\ (k * cfg.value < k * cfg.min \/ k * cfg.value > k * cfg.max)}
        first == CHOOSE n \in failing : \A m \in failing : n <= m
        names == <<"MissingParameter", "InvalidUnits", "NotANumber", "OutOfAbsoluteBounds",
                   "OutOfAbsoluteBounds", "InvalidOrdering", "ValueOutOfRange">>
    IN  IF failing = {} THEN "none" ELSE names[first]

\* C3: FontSize setDefaults succeeds exactly when every check passes, and
\* otherwise throws the error of the first failing check in the listed order;
\* on success the defaults stored are those of the call.
C3_FirstFailingCheckDecides ==
    (ctl = "FontSize" /\ last.op = "setDefaults") =>
        /\ last.err = C3_Expected(last.cfg)
        /\ last.err = "none" => fs.defaultUnits = last.cfg.units

C3_Witness ==
    /\ ctl = "FontSize"
    /\ last.op = "setDefaults"
    /\ last.err = "OutOfAbsoluteBounds"
    /\ last.cfg.units = "em"
    /\ last.cfg.min = Dec(704)
    /\ last.cfg.max = Dec(704)
    /\ last.cfg.value = Dec(99900)

\* C5: the stored FontSize defaults are always inside the absolute limits and
\* ordered (minimumMin <= min <= value <= max <= maximumMax in base units),
\* and are whole numbers in the base unit, multiples of 0.1 in em.
C5_DefaultsWithinBounds ==
    ctl = "FontSize" =>
        LET k == IF fs.defaultUnits = defaultUnitType THEN 1 ELSE defaultUnitSize
            grid == IF fs.defaultUnits = defaultUnitType THEN Scale ELSE Scale \div 10
        IN  /\ fs.defaultUnits \in {defaultUnitType, "em"}
            /\ minimumMin <= k * fs.defaultMin
            /\ k * fs.defaultMin <= k * fs.defaultValue
            /\ k * fs.defaultValue <= k * fs.defaultMax
            /\ k * fs.defaultMax <= maximumMax
            /\ \A x \in {fs.defaultMin, fs.defaultValue, fs.defaultMax} : x % grid = 0

\* Defaults stored from numbers that the rounding moved, up to both limits.
C5_Witness ==
    /\ ctl = "FontSize"
    /\ last.op = "setDefaults"
    /\ last.err = "none"
    /\ last.cfg = Cfg("em", Dec(4), Dec(696), Dec(245))
    /\ fsDefaults(fs) = <<"em", Dec(0), Dec(700), Dec(250)>>

\* C4 as stated: on a fresh FontSize control, setDefaults with
\* {units: "pt", min: 0, max: 10, value: 20} throws ValueOutOfRange and
\* changes nothing.
C4_PtConfigValueOutOfRange ==
    [][ (ctl = "FontSize" /\ last.op = "construct"
            /\ last'.op = "setDefaults" /\ last'.cfg = ConfigC4) =>
            /\ last'.err = "ValueOutOfRange"
            /\ fsData(fs') = fsData(fs) ]_vars

\* C4 amended: on a fresh FontSize control, setDefaults with
\* {units: "pt", min: 0, max: 10, value: 20} throws the invalid-units error
\* ("pt" is not a supported unit token), the same numbers with units "px"
\* throw ValueOutOfRange, and either call changes nothing: a reset after it
\* reads back the defaults of the constructor.
C4_PtConfigRejected ==
    [][ (ctl = "FontSize" /\ last.op = "construct" /\ last'.op = "setDefaults"
            /\ last'.cfg \in {ConfigC4, ConfigC4px}) =>
            /\ last'.cfg = ConfigC4 => last'.err = "InvalidUnits"
            /\ last'.cfg = ConfigC4px => last'.err = "ValueOutOfRange"
            /\ fsData(fs') = fsData(fs)
            /\ fsLive(reset(fs')) = fsDefaults(fsConstructed) ]_vars

C4_Witness ==
    /\ ctl = "FontSize"
    /\ last.op = "setDefaults"
    /\ last.cfg = ConfigC4
    /\ last.err = "InvalidUnits"
    /\ fsData(fs) = fsData(fsConstructed)

\* C6: after reset() of a FontSize control, from any reachable state, the
\* units, min, max and value read back are the stored defaults, and a second
\* reset changes nothing.
C6_ResetRestoresDefaults ==
    (ctl = "FontSize" /\ last.op = "reset") =>
        /\ fsLive(fs) = fsDefaults(fs)
        /\ fsData(reset(began(fs))) = fsData(fs)

C6_Witness ==
    /\ ctl = "FontSize"
    /\ last.op = "reset"
    /\ fs.defaultUnits = "em"
    /\ fs.events = 2
    /\ getValue(fs) = Dec(120)

\* C7: setDefaults(config, true) ends as setDefaults(config, false) followed
\* by reset() does, for FontSize, Color and FontFamily: the same error or the
\* same stored defaults and live state; when the validation fails nothing is
\* applied.
C7_WithResetIsSetDefaultsThenReset ==
    [][ (last'.op = "setDefaults" /\ last'.withReset) =>
            CASE ctl = "FontSize" ->
                    LET r == setDefaults(began(fs), last'.cfg, FALSE)
                    IN  /\ r.err = "none" => /\ fs' = reset(began(r.st))
                                             /\ last'.err = reset(began(r.st)).err
                        /\ r.err # "none" => /\ fs' = began(fs)
                                             /\ last'.err = r.err
              [] ctl = "Color" ->
                    LET r == colSetDefaults(began(col), last'.str[1], FALSE)
                    IN  /\ last'.err = r.err
                        /\ r.err = "none" => col' = colReset(began(r.st))
                        /\ r.err # "none" => col' = began(col)
              [] ctl = "FontFamily" ->
                    LET r == fontSetDefaults(began(font), last'.str, FALSE)
                    IN  /\ last'.err = r.err
                        /\ r.err = "none" => font' = fontReset(began(r.st))
                        /\ r.err # "none" => font' = began(font) ]_vars

C7_Witness ==
    /\ ctl = "FontSize"
    /\ last.op = "setDefaults"
    /\ last.withReset
    /\ last.err = "none"
    /\ last.cfg.units = "em"
    /\ fs.events = 2
    /\ fsLive(fs) = fsDefaults(fs)

\* C8: generateControl with a controlType that is no key of ControlTypes
\* throws UnsupportedControlType whatever the other arguments are, invokes no
\* factory and constructs no control.
C8_UnknownTypeRejected ==
    [][ (gen' # gen /\ gen'.type \notin {"FontSize", "Color", "FontFamily", "RadioTabs"}) =>
            /\ gen'.err = "UnsupportedControlType"
            /\ gen'.invoked = "none"
            /\ UNCHANGED <<rt, fz, ctl, last>> ]_vars

C8_Witness ==
    /\ gen.type = "NoSuchType"
    /\ gen.args = <<"body", "body">>
    /\ gen.err = "UnsupportedControlType"
    /\ padlockTemplate = "svg"

\* The factories in Style call mode.
StyleTypes == {t \in ControlTypes : generatorRegistry[t].use = "style"}

\* C9: for a factory in Style call mode, generateControl throws
\* InvalidArgumentShape without invoking the factory whenever the first or the
\* second argument is missing, not a string or the empty string.
C9_StyleArgumentsValidated ==
    (gen.type \in StyleTypes
        /\ \E k \in 1..2 :
              \/ Len(gen.args) < k
              \/ gen.args[k] \in NonStrings
              \/ gen.args[k] = "") =>
        (gen.err = "InvalidArgumentShape" /\ gen.invoked = "none")

C9_Witness ==
    /\ gen.type = "FontSize"
    /\ gen.args = <<>>
    /\ gen.err = "InvalidArgumentShape"
    /\ padlockTemplate = "svg"

\* The factories in SimpleId call mode.
SimpleIdTypes == {t \in ControlTypes : generatorRegistry[t].use = "control"}

\* C10: for a factory in SimpleId call mode, generateControl returns only for
\* exactly one argument that is a non-empty string, and throws
\* InvalidArgumentShape for every other argument list.
C10_SimpleIdExactlyOneArgument ==
    gen.type \in SimpleIdTypes =>
        IF Len(gen.args) = 1 /\ gen.args[1] \notin NonStrings /\ gen.args[1] # ""
        THEN gen.err = "none"
        ELSE gen.err = "InvalidArgumentShape"

\* Arguments that fit a factory's signature: (cssSelector, cssParameter) for
\* the style controls, (id) for RadioTabs.
C11_Arguments(type) == IF type = "RadioTabs" THEN <<"body">> ELSE <<"body", "body">>

\* C11: for every key of ControlTypes, a generateControl call made with both
\* assets loaded and with arguments that fit the factory returns the factory's
\* control; it does not throw MissingCallModeMetadata.
C11_EveryRegisteredTypeConstructs ==
    [][ (padlockTemplate = "svg" /\ Choices = "function" /\ gen' # gen
            /\ gen'.type \in ControlTypes /\ gen'.args = C11_Arguments(gen'.type)) =>
            /\ gen'.err = "none"
            /\ gen'.invoked = gen'.type
            /\ ctl' = gen'.type ]_vars

\* C12: a factory that runs while the padlock template or the Choices
\* constructor is not loaded throws the not-ready error and returns no control.
C12_NoControlBeforeAssets ==
    (made.name # "-" /\ (made.padlock = "undefined" \/ made.choices # "function")) =>
        made.err = "NotReady"

\* C13: controlsReady is fulfilled only when padlockLoaded and choicesLoaded
\* are, and then the padlock template, with cloneWith attached, and the
\* Choices constructor are set; each cache is written at most once, and
\* neither changes once controlsReady is fulfilled.
C13_ReadyImpliesAssetsSet ==
    /\ [](loads.controlsReady = "fulfilled" =>
            /\ loads.padlockLoaded = "fulfilled"
            /\ loads.choicesLoaded = "fulfilled"
            /\ padlockTemplate = "svg"
            /\ loads.cloneWith
            /\ Choices = "function")
    /\ [](loads.padlockWrites <= 1 /\ loads.choicesWrites <= 1)
    /\ [][loads.controlsReady = "fulfilled" => UNCHANGED <<rt, fz, padlockTemplate, Choices>>]_vars

\* A FontFamily control built after controlsReady was fulfilled.
C13_Witness ==
    /\ loads.controlsReady = "fulfilled"
    /\ made.name = "FontFamily"
    /\ made.err = "none"
    /\ ctl = "FontFamily"

\* Whether sep occurs in str.
contains(str, sep) ==
    \E i \in 1..Len(str) : i + Len(sep) - 1 <= Len(str) /\ SubSeq(str, i, i + Len(sep) - 1) = sep

\* C14: for a selector and a parameter neither of which contains the
\* delimiter, splitID(generateID(selector, parameter)) is the pair again.
C14_SplitInvertsGenerate ==
    (util.fn = "splitID"
        /\ ~contains(util.selector, delimiter) /\ ~contains(util.parameter, delimiter)) =>
        util.out = [selector |-> util.selector, parameter |-> util.parameter]

\* C15: an assignment to the value of a FontSize control never throws: an
\* input that is no finite number changes nothing and dispatches no event, a
\* finite input is stored, clamped to the bounds where they are ordered, and
\* one change event is dispatched.
C15_ValueSetterNeverThrows ==
    [][ (ctl = "FontSize" /\ last'.op = "value") =>
            /\ last'.err = "none"
            /\ ~IsFinite(last'.arg) => (fsData(fs') = fsData(fs) /\ fs'.events = 0)
            /\ IsFinite(last'.arg) =>
                    /\ fs'.events = 1
                    /\ fsDefaults(fs') = fsDefaults(fs)
                    /\ <<fs'.units, fs'.min, fs'.max>> = <<fs.units, fs.min, fs.max>>
                    /\ lte(fs.min, fs.max) =>
                            (lte(fs.min, fs'.value) /\ lte(fs'.value, fs.max)) ]_vars

\* C16: a call that changes the value a control reads back dispatches a
\* change event on the control, and every change event it dispatches bubbles.
C16_ValueChangeDispatchesBubblingChange ==
    [][ /\ (ctl = "FontSize" /\ getValue(fs') # getValue(fs)) =>
                (fs'.events >= 1 /\ fs'.bubbles = fs'.events)
        /\ (ctl = "Color" /\ col'.value # col.value) =>
                (col'.events >= 1 /\ col'.bubbles = col'.events)
        /\ (ctl = "FontFamily" /\ font'.value # font.value) =>
                (font'.events >= 1 /\ font'.bubbles = font'.events) ]_vars

\* The distance of two numbers.
distance(a, b) == IF a >= b THEN a - b ELSE b - a

\* C17: two clicks on the unit label in a row, the first from the base unit,
\* show the base unit again and a value that differs from the value shown
\* before the first click by at most 1.
C17_UnitToggleRoundTrip ==
    [][ (ctl = "FontSize" /\ last.op = "clickUnit" /\ last'.op = "clickUnit"
            /\ last.unit = defaultUnitType /\ IsFinite(last.arg)) =>
            /\ fs'.units = defaultUnitType
            /\ IsFinite(getValue(fs'))
            /\ distance(getValue(fs'), last.arg) <= Whole(1) ]_vars

\* Back in the base unit after two clicks, with a value that is no whole
\* number of em and bounds other than the constructor's.
C17_Witness ==
    /\ ctl = "FontSize"
    /\ last.op = "clickUnit"
    /\ last.unit = "em"
    /\ last.err = "none"
    /\ fs.units = defaultUnitType
    /\ getValue(fs) = Whole(8)
    /\ getMin(fs) = Whole(2)

\* C18: Color setDefaults with a value that is no CSS color throws (the
\* invalid-color error when the value is a non-blank string) and leaves the
\* stored default as it was; with a CSS color it returns, stores the value as
\* given, and a reset after it makes the control's value exactly that value.
C18_ColorDefaultRestoredExactly ==
    [][ (ctl = "Color" /\ last'.op = "setDefaults") =>
            LET v == last'.str[1]
            IN  /\ v \notin CssColors =>
                    /\ last'.err # "none"
                    /\ (isString(v) /\ v \notin BlankStrings) => last'.err = "InvalidColor"
                    /\ col'.defaultColor = col.defaultColor
                /\ v \in CssColors =>
                    /\ last'.err = "none"
                    /\ col'.defaultColor = v
                    /\ colReset(began(col')).value = v ]_vars

\* The grammar of C19, read from the left: where the reading of s stands
\* after each character.  "start": at the start of an entry; "blank": in an
\* entry of spaces so far; "bare": in a bare name; "open'" and "open\"": after
\* an opening quote; "in'" and "in\"": in a quoted name; "closed": after the
\* closing quote; "reject": s is not of the grammar.
C19_Step(state, c) ==
    LET name == c \in {"a", "-", "_", "0"}
        space == c = " "
        quote == c \in {"'", "\""}
    IN  CASE state = "start" ->
                IF space THEN "blank" ELSE IF name THEN "bare"
                ELSE IF quote THEN "open" \o c ELSE "reject"
          [] state = "blank" ->
                IF space THEN "blank" ELSE IF name THEN "bare"
                ELSE IF quote THEN "open" \o c ELSE IF c = "," THEN "start" ELSE "reject"
          [] state = "bare" ->
                IF space \/ name THEN "bare" ELSE IF c = "," THEN "start" ELSE "reject"
          [] state \in {"open'", "open\""} ->
                IF space \/ name THEN (IF state = "open'" THEN "in'" ELSE "in\"") ELSE "reject"
          [] state = "in'" ->
                IF space \/ name THEN "in'" ELSE IF c = "'" THEN "closed" ELSE "reject"
          [] state = "in\"" ->
                IF space \/ name THEN "in\"" ELSE IF c = "\"" THEN "closed" ELSE "reject"
          [] state = "closed" ->
                IF space THEN "closed" ELSE IF c = "," THEN "start" ELSE "reject"
          [] OTHER -> "reject"

RECURSIVE C19_Read(_, _)
C19_Read(s, state) == IF s = <<>> THEN state ELSE C19_Read(Tail(s), C19_Step(state, Head(s)))

\* A non-blank string that is a comma-separated list of entries, each a
\* non-empty run of name characters and spaces, bare or between two equal
\* quotes, with spaces allowed around it.
C19_Grammar(s) ==
    /\ s # NotAString
    /\ \E k \in 1..Len(s) : s[k] # " "
    /\ C19_Read(s, "start") \in {"blank", "bare", "closed"}

\* C19: FontFamily setDefaults accepts a value exactly when it is a string of
\* the grammar; it then stores it, and otherwise throws
\* InvalidFontFamilyString and leaves the stored default font as it was.
C19_FontFamilyGrammar ==
    (ctl = "FontFamily" /\ last.op = "setDefaults") =>
        /\ last.err = "none" <=> C19_Grammar(last.str)
        /\ last.err = "none" => font.defaultFont = last.str
        /\ last.err # "none" =>
                (last.err = "InvalidFontFamilyString"
                    /\ font.defaultFont = fontConstructed.defaultFont)

\* A name between two different quotes, rejected.
C19_Witness ==
    /\ ctl = "FontFamily"
    /\ last.op = "setDefaults"
    /\ last.str = <<"'", "a", "\"">>
    /\ last.err = "InvalidFontFamilyString"
    /\ last.withReset

\* C20: in every reachable state of a FontSize control the number input and
\* the slider are disabled exactly when locked is true; a click on the padlock
\* flips locked, so that the second of two clicks in a row restores the lock
\* state of before the first; a click on the padlock or an assignment to
\* locked leaves units, min, max and value as they were.
C20_LockedDisablesInputs ==
    /\ [](ctl = "FontSize" =>
            (fs.inputDisabled = locked(fs) /\ fs.sliderDisabled = locked(fs)))
    /\ [][ /\ (ctl = "FontSize" /\ last'.op = "clickPadlock") =>
                    locked(fs') = ~locked(fs)
           /\ (ctl = "FontSize" /\ last.op = "clickPadlock" /\ last'.op = "clickPadlock") =>
                    locked(fs') = (last.str[1] = "true")
           /\ (ctl = "FontSize" /\ last'.op \in {"clickPadlock", "locked"}) =>
                    /\ fsLive(fs') = fsLive(fs)
                    /\ <<fs'.units, fs'.min, fs'.max, fs'.value>>
                            = <<fs.units, fs.min, fs.max, fs.value>> ]_vars

\* Locked by a click from a data-locked attribute that was neither "true" nor
\* "false", with a value other than the constructor's shown in em.
C20_Witness ==
    /\ ctl = "FontSize"
    /\ last.op = "clickPadlock"
    /\ last.str = <<"yes">>
    /\ locked(fs)
    /\ fs.inputDisabled
    /\ fs.sliderDisabled
    /\ fs.units = "em"
    /\ getValue(fs) = Dec(50)

\* The ids on the elements of a subtree, the root included.
idsOf(svg) == {svg[k].id : k \in {j \in 1..Len(svg) : svg[j].id # "<none>"}}

\* C21: after a sanitizeSVGIds call every element of the subtree that had an
\* id has a new one, which is none of the original ids and the id of no other
\* element; the keys and the values of the returned map are disjoint and the
\* values pairwise distinct; every url(#id) or #id of a referencing attribute
\* and every url(#id) of a style text that named an id of the map names the
\* id of an element of the subtree.
C21_SanitizedIdsFreshAndReferencesResolve ==
    (util.fn = "sanitizeSVGIds" /\ util.returned = "Map") =>
        LET old == util.source
            new == util.svg
            keys == {p[1] : p \in util.idMap}
            values == {p[2] : p \in util.idMap}
        IN  /\ \A k \in 1..Len(old) : old[k].id # "<none>" =>
                    /\ new[k].id \notin idsOf(old)
                    /\ \A j \in 1..Len(old) : j # k => new[j].id # new[k].id
            /\ keys \cap values = {}
            /\ \A p \in util.idMap, q \in util.idMap : p[2] = q[2] => p = q
            /\ \A k \in 1..Len(old) :
                    /\ (old[k].attr.form \in {"url", "hash"} /\ old[k].attr.id \in keys) =>
                            new[k].attr.id \in idsOf(new)
                    /\ (old[k].css \in keys) => new[k].css \in idsOf(new)

\* C22: the ids two sanitizeSVGIds calls generate, as on two clones of the
\* padlock template, are never the same.
C22_SeparateCallsNeverCollide ==
    (util.fn = "padlockTemplate") =>
        \A i \in 1..Len(util.clones), j \in 1..Len(util.clones) : i # j =>
            {p[2] : p \in util.clones[i].idMap} \cap {p[2] : p \in util.clones[j].idMap} = {}

\* C23: cloneWith never throws; for a source that is null or has no
\* cloneNode it returns null; otherwise it returns a clone on which every key
\* of the changes is a property with the given value if the key is a property
\* that reads back that value, and an attribute with the given value if not;
\* the source is as it was.
C23_CloneWithNeverThrows ==
    (util.fn = "cloneWith") =>
        /\ util.err = "none"
        /\ util.source = util.arg
        /\ (util.arg.kind \in {"null", "object"}) => util.returned.kind = "null"
        /\ (util.arg.kind \notin {"null", "object"}) =>
                \A k \in 1..Len(util.changes) :
                    LET key == util.changes[k][1]
                        value == util.changes[k][2]
                    IN  IF key = "id" /\ util.arg.kind = "element"
                        THEN util.returned.props[key] = value
                        ELSE util.returned.attrs[key] = value

\* A text validateText accepts, said without it.
plainLabel(text) ==
    /\ text # NotAString /\ text # Null
    /\ \E k \in 1..Len(text) : text[k] # " "
    /\ \A k \in 1..Len(text) : text[k] # "<" /\ text[k] # ">"

\* The indices of the radios that are checked.
checkedRadios(st) == {k \in 1..Len(st.radios) : st.radios[k].checked}

\* C24: the tab list of a RadioTabs control never holds a label twice, nor a
\* label that is blank or holds '<' or '>'; count() is the number of
\* successful adds minus the number of deletes of existing tabs; an
\* appendTab or prependTab call that returns false leaves the list, count()
\* and the selection as they were.
C24_TabListValid ==
    /\ [](/\ \A i \in 1..Len(rt.tabs), j \in 1..Len(rt.tabs) : rt.tabs[i] = rt.tabs[j] => i = j
          /\ \A i \in 1..Len(rt.tabs) : plainLabel(rt.tabs[i])
          /\ count(rt) = rt.adds - rt.deletes)
    /\ [][ /\ (rt'.op \in {"appendTab", "prependTab"}
                /\ (~plainLabel(rt'.arg) \/ includes(rt.tabs, rt'.arg))) => rt'.ret = "false"
           /\ (rt'.op \in {"appendTab", "prependTab"} /\ rt'.ret = "false") =>
                /\ rt'.tabs = rt.tabs
                /\ count(rt') = count(rt)
                /\ rt'.radios = rt.radios
                /\ rt'.adds = rt.adds ]_vars

C24_Witness ==
    /\ rt.op = "appendTab" /\ rt.ret = "false" /\ includes(rt.tabs, rt.arg)
    /\ Len(rt.tabs) = 2 /\ rt.deletes = 1
    /\ checkedRadios(rt) = {2}

\* tabs with the element at position k left out.
without(tabs, k) == SubSeq(tabs, 1, k - 1) \o SubSeq(tabs, k + 1, Len(tabs))

\* C25: a successful appendTab(t, afterTab) puts t right after afterTab when
\* afterTab is a tab, and at the end when it is not; a successful
\* prependTab(t, beforeTab) puts t right before beforeTab when it is a tab,
\* and at the beginning when it is not; the tabs that were there keep their
\* order; deleteTab of a label that is no tab changes nothing.
C25_InsertionPosition ==
    [][ /\ \A afterTab \in RefInputs :
              (rt' = RtCall(appendTab(rtBegan(rt), rt'.arg, afterTab), "appendTab", rt'.arg)
                  /\ rt'.ret = "true") =>
                  LET k == IF includes(rt.tabs, afterTab) THEN indexOf(rt.tabs, afterTab) + 1
                           ELSE Len(rt.tabs) + 1
                  IN  /\ Len(rt'.tabs) = Len(rt.tabs) + 1
                      /\ rt'.tabs[k] = rt'.arg
                      /\ without(rt'.tabs, k) = rt.tabs
        /\ \A beforeTab \in RefInputs :
              (rt' = RtCall(prependTab(rtBegan(rt), rt'.arg, beforeTab), "prependTab", rt'.arg)
                  /\ rt'.ret = "true") =>
                  LET k == IF includes(rt.tabs, beforeTab) THEN indexOf(rt.tabs, beforeTab) ELSE 1
                  IN  /\ Len(rt'.tabs) = Len(rt.tabs) + 1
                      /\ rt'.tabs[k] = rt'.arg
                      /\ without(rt'.tabs, k) = rt.tabs
        /\ (rt'.op = "deleteTab" /\ ~includes(rt.tabs, rt'.arg)) =>
              /\ rt'.tabs = rt.tabs
              /\ rt'.radios = rt.radios
              /\ rt'.events = 0 ]_vars

C25_Witness ==
    /\ rt.op = "appendTab" /\ rt.ret = "true"
    /\ Len(rt.tabs) = 3 /\ rt.deletes = 0
    /\ rt.tabs[2] = rt.arg

\* C26: assigning a label of the tab list to value selects the tab with that
\* label, so that value reads the label, trimmed; assigning a value that
\* matches no tab, by its sanitized form, leaves the selection as it was and
\* dispatches no change event.
C26_ValueRoundTrip ==
    [][ (rt'.op = "value") =>
            /\ includes(rt.tabs, rt'.arg) =>
                    /\ \A k \in checkedRadios(rt') : rt'.radios[k].label = rt'.arg
                    /\ rtGetValue(rt') = [value |-> trim(rt'.arg), err |-> "none"]
            /\ (\A k \in 1..Len(rt.tabs) : sanitizeId(rt.tabs[k]) # sanitizeId(rt'.arg)) =>
                    /\ rt'.radios = rt.radios
                    /\ rt'.events = 0 ]_vars

\* C28: right after a successful appendTab or prependTab, or a deleteTab of a
\* tab, that leaves a tab, one radio is checked and it is the one of the
\* first tab of the list, whichever was checked before; with an empty list
\* value is null.
C28_FirstTabSelectedAfterRebuild ==
    /\ [][ ((rt'.op \in {"appendTab", "prependTab"} /\ rt'.ret = "true")
                \/ (rt'.op = "deleteTab" /\ includes(rt.tabs, rt'.arg))) =>
               (Len(rt'.tabs) > 0 =>
                    /\ checkedRadios(rt') = {1}
                    /\ rt'.radios[1].label = rt'.tabs[1]
                    /\ Len(rt'.radios) = Len(rt'.tabs)) ]_vars
    /\ [](rt.tabs = <<>> => rtGetValue(rt) = [value |-> Null, err |-> "none"])

C28_Witness ==
    /\ rt.op = "deleteTab" /\ rt.deletes = 2
    /\ Len(rt.tabs) = 1
    /\ checkedRadios(rt) = {1}

\* C27: in every state a FontSize control reaches by assignments of finite
\* numbers to min, max and value, assignments to units, setDefaults and
\* reset, minimumMin <= min <= max <= maximumMax in base units.
C27_BoundsOrderedInsideLimits ==
    (ctl = "FontSize") =>
        /\ lte(minimumMin, fs.min)
        /\ lte(fs.min, fs.max)
        /\ lte(fs.max, maximumMax)

\* C29: whichever way the two asset loads end, controlsReady is eventually
\* fulfilled or rejected.
C29_ControlsReadySettles == <>(loads.controlsReady # "pending")

\* C30: in the em/px FontSize control a click on the unit, made with
\* min <= max inside the absolute limits of the unit shown, leaves
\* round(16 * min) and round(16 * max) as the bounds when it goes from em to
\* px, and min / 16 and max / 16 rounded to one decimal when it goes from px
\* to em; two clicks that go from em to px and back leave the bounds they
\* started from.
C30_UnitClickConvertsBounds ==
    LET n == Len(fz.clicks)
        before == fz.clicks[n]
        ordered(c) ==
            /\ c[2] <= c[3]
            /\ IF c[1] = "em" THEN fzMinimumMin <= c[2] /\ c[3] <= fzMaximumMax
               ELSE emToPx(fzMinimumMin) <= c[2] /\ c[3] <= emToPx(fzMaximumMax)
    IN  /\ (n > 0 /\ ordered(before) /\ before[1] = "em") =>
                fz.min = roundTo(16 * before[2], 0) /\ fz.max = roundTo(16 * before[3], 0)
        /\ (n > 0 /\ ordered(before) /\ before[1] = "px") =>
                fz.min = roundTo(before[2] \div 16, 1) /\ fz.max = roundTo(before[3] \div 16, 1)
        /\ (n = 2 /\ ordered(fz.clicks[1]) /\ fz.clicks[1][1] = "em") =>
                fz.min = fz.clicks[1][2] /\ fz.max = fz.clicks[1][3]

====
